---- MODULE Spec2Model ----
(***************************************************************************)
(* tail.core ingestion pipeline: extract -> canonicalize/hash -> derive,   *)
(* and the storage/run lifecycle around it.                                *)
(*                                                                         *)
(* Text is modelled as a sequence of characters, each character a string   *)
(* of length one ("a", "1", "$"); characters outside ASCII are written by  *)
(* their code point ("U+20B9" is the rupee sign).  A JavaScript            *)
(* `string | null` is a character sequence or Null.                        *)
(***************************************************************************)
EXTENDS Integers, Sequences, FiniteSets, TLC

VARIABLES
  call,                   \* the pending call of a pipeline function: [fn, arg, ...]
  ret,                    \* what the call returned, Pending before it ran
  syncRuns,               \* table sync_runs, by run id
  rawRows,                \* table raw_rows
  normalizedTransactions, \* table normalized_transactions
  jobs,                   \* the upload-parse queue: the job of each run
  procs,                  \* each upload's request, then its worker job: position and locals
  clock,                  \* the time, advancing whenever a run finishes
  failures,               \* how many awaited calls have been rejected
  sources                 \* table sources

pureVars == <<call, ret>>
storeVars == <<syncRuns, rawRows, normalizedTransactions, jobs, procs, clock, failures, sources>>
vars ==
  <<call, ret, syncRuns, rawRows, normalizedTransactions, jobs, procs, clock, failures, sources>>

\* Nothing uploaded yet: empty tables, an empty queue.
EmptyStore ==
  /\ syncRuns = <<>>
  /\ rawRows = {}
  /\ normalizedTransactions = {}
  /\ jobs = <<>>
  /\ procs = <<>>
  /\ clock = 0
  /\ failures = 0
  /\ sources = <<>>

Pending == <<"pending">>
Null == <<"null">>

(***************************************************************************)
(* Bounds of the checked input sets.                                       *)
(***************************************************************************)
MaxDecLen == 3
MaxFracBody == 6
MaxDateLen == 3
MaxNameTokens == 3
MaxRowKeys == 3
MaxRows == 2
MaxRuns == 2
MaxFailures == 1

(***************************************************************************)
(* Characters and the JavaScript string built-ins the pipeline uses.       *)
(***************************************************************************)
Range(s) == {s[i] : i \in DOMAIN s}

SeqsUpTo(S, n) == UNION {[1..k -> S] : k \in 0..n}

DigitChars == <<"0", "1", "2", "3", "4", "5", "6", "7", "8", "9">>

IsDigit(c) == c \in Range(DigitChars)

DigitValue(c) == (CHOOSE i \in DOMAIN DigitChars : DigitChars[i] = c) - 1

\* \s of a JavaScript regular expression, and what trim() removes.
IsSpace(c) == c \in {" ", "\t", "\n", "\r", "U+00A0", "U+FEFF"}

\* String.prototype.normalize("NFKC") on the characters of the model:
\* the no-break space becomes a space, a full-width digit its ASCII digit,
\* the full-width dollar sign a dollar sign.
NfkcChar(c) ==
  CASE c = "U+00A0" -> " "
    [] c = "U+FF11" -> "1"
    [] c = "U+FF04" -> "$"
    [] OTHER -> c

NFKC(s) == [i \in DOMAIN s |-> NfkcChar(s[i])]

RECURSIVE TrimStart(_)
TrimStart(s) ==
  IF s = <<>> \/ ~IsSpace(Head(s)) THEN s ELSE TrimStart(Tail(s))

RECURSIVE TrimEnd(_)
TrimEnd(s) ==
  IF s = <<>> \/ ~IsSpace(s[Len(s)]) THEN s ELSE TrimEnd(SubSeq(s, 1, Len(s) - 1))

Trim(s) == TrimEnd(TrimStart(s))

\* s.replace(/[...]/g, "") for a character class given as a set.
RemoveChars(s, class) == SelectSeq(s, LAMBDA c : c \notin class)

\* s.replace(/\s+/g, "")
RemoveSpaces(s) == SelectSeq(s, LAMBDA c : ~IsSpace(c))

StartsWith(s, c) == s # <<>> /\ Head(s) = c

EndsWith(s, c) == s # <<>> /\ s[Len(s)] = c

\* s.slice(0, n)
Take(s, n) == SubSeq(s, 1, IF n < Len(s) THEN n ELSE Len(s))

RECURSIVE Repeat(_, _)
Repeat(c, n) == IF n <= 0 THEN <<>> ELSE <<c>> \o Repeat(c, n - 1)

PadEnd_NoPadding(s, n, c) == s

PadEnd(s, n, c) == s \o Repeat(c, n - Len(s))

PadStart(s, n, c) == Repeat(c, n - Len(s)) \o s

\* Number(text) for a text of decimal digits.
RECURSIVE NatOf(_)
NatOf(s) == IF s = <<>> THEN 0 ELSE 10 * NatOf(SubSeq(s, 1, Len(s) - 1)) + DigitValue(s[Len(s)])

\* s.replace(/^0+(?=\d)/, ""): leading zeros that a digit follows.
RECURSIVE StripLeadingZeros(_)
StripLeadingZeros(s) ==
  IF Len(s) >= 2 /\ s[1] = "0" /\ IsDigit(s[2]) THEN StripLeadingZeros(Tail(s)) ELSE s

(***************************************************************************)
(* BigInt: an arbitrary-precision natural number is the sequence of its    *)
(* decimal digits (values 0..9), most significant first, without leading   *)
(* zeros; zero is <<0>>.                                                   *)
(***************************************************************************)
RECURSIVE BigNorm(_)
BigNorm(d) ==
  IF d = <<>> THEN <<0>>
  ELSE IF Len(d) >= 2 /\ d[1] = 0 THEN BigNorm(Tail(d)) ELSE d

\* BigInt(text) for a text of decimal digits; BigInt("") is 0n.
BigIntOf(s) == BigNorm([i \in DOMAIN s |-> DigitValue(s[i])])

\* a + b, adding from the least significant digit (position p counts from it).
RECURSIVE BigAddFrom(_, _, _, _)
BigAddFrom(a, b, p, carry) ==
  IF p > Len(a) /\ p > Len(b)
  THEN IF carry = 0 THEN <<>> ELSE <<carry>>
  ELSE LET da == IF p <= Len(a) THEN a[Len(a) + 1 - p] ELSE 0
           db == IF p <= Len(b) THEN b[Len(b) + 1 - p] ELSE 0
           sum == da + db + carry
       IN  BigAddFrom(a, b, p + 1, sum \div 10) \o <<sum % 10>>

BigAdd(a, b) == BigNorm(BigAddFrom(a, b, 1, 0))

\* a * 10^k
BigMulPow10(a, k) == IF a = <<0>> THEN a ELSE a \o [i \in 1..k |-> 0]

\* a / 10^k (BigInt division truncates)
BigDivPow10(a, k) == IF Len(a) <= k THEN <<0>> ELSE SubSeq(a, 1, Len(a) - k)

\* a % 10^k
BigModPow10(a, k) == IF Len(a) <= k THEN a ELSE BigNorm(SubSeq(a, Len(a) - k + 1, Len(a)))

\* a.toString()
BigToString(a) == [i \in DOMAIN a |-> DigitChars[a[i] + 1]]

(***************************************************************************)
(* normalizeDecimalString                                                  *)
(***************************************************************************)
DECIMAL_SCALE == 6

CurrencySymbolsAndComma == {"$", "U+20AC", "U+00A3", "U+20B9", ","}

\* trimmed.replace(/[$€£₹,]/g, "").replace(/\s+/g, "")
StripSymbols_NoComma(s) ==
  RemoveSpaces(RemoveChars(s, CurrencySymbolsAndComma \ {","}))

StripSymbols(s) == RemoveSpaces(RemoveChars(s, CurrencySymbolsAndComma))

\* /^(\d*)(?:\.(\d*))?$/: the digits before and after the only dot, or no match.
DecimalMatch(s) ==
  LET dots == {i \in DOMAIN s : s[i] = "."}
  IN  IF \E i \in DOMAIN s : ~IsDigit(s[i]) /\ s[i] # "." THEN Null
      ELSE IF Cardinality(dots) > 1 THEN Null
      ELSE IF dots = {} THEN <<s, <<>>>>
      ELSE LET p == CHOOSE i \in dots : TRUE
           IN  <<SubSeq(s, 1, p - 1), SubSeq(s, p + 1, Len(s))>>

\* if (roundingDigit >= 5) scaled += 1n
RoundingIncrement_Above5(roundingDigit) == IF roundingDigit > 5 THEN <<1>> ELSE <<0>>

RoundingIncrement(roundingDigit) == IF roundingDigit >= 5 THEN <<1>> ELSE <<0>>

normalizeDecimalString(value) ==
  LET trimmed0 == Trim(NFKC(value))
      wrapped == StartsWith(trimmed0, "(") /\ EndsWith(trimmed0, ")")
      trimmed1 == IF wrapped THEN SubSeq(trimmed0, 2, Len(trimmed0) - 1) ELSE trimmed0
      trimmed2 == StripSymbols(trimmed1)
      trimmed3 == IF StartsWith(trimmed2, "+") \/ StartsWith(trimmed2, "-")
                  THEN Tail(trimmed2) ELSE trimmed2
      isNegative == wrapped \/ (~StartsWith(trimmed2, "+") /\ StartsWith(trimmed2, "-"))
      match == DecimalMatch(trimmed3)
  IN  IF trimmed0 = <<>> THEN Null
      ELSE IF trimmed2 = <<>> THEN Null
      ELSE IF match = Null THEN Null
      ELSE LET integerToken == match[1]
               fractionToken == match[2]
               normalizedInteger ==
                 IF Len(integerToken) > 0 THEN StripLeadingZeros(integerToken) ELSE <<"0">>
               normalizedFraction ==
                 PadEnd(Take(fractionToken, DECIMAL_SCALE), DECIMAL_SCALE, "0")
               roundingDigit ==
                 IF Len(fractionToken) > DECIMAL_SCALE
                 THEN DigitValue(fractionToken[DECIMAL_SCALE + 1]) ELSE 0
               scaled ==
                 BigAdd(BigAdd(BigMulPow10(BigIntOf(normalizedInteger), DECIMAL_SCALE),
                               BigIntOf(normalizedFraction)),
                        RoundingIncrement(roundingDigit))
               negative == isNegative /\ scaled # <<0>>
               whole == BigToString(BigDivPow10(scaled, DECIMAL_SCALE))
               decimal == PadStart(BigToString(BigModPow10(scaled, DECIMAL_SCALE)),
                                   DECIMAL_SCALE, "0")
               sign == IF negative THEN <<"-">> ELSE <<>>
           IN  IF Len(integerToken) = 0 /\ Len(fractionToken) = 0 THEN Null
               ELSE sign \o whole \o <<".">> \o decimal

(***************************************************************************)
(* The decimal normalizer under test: every short text over the characters *)
(* it distinguishes, decimals with up to MaxFracBody + 2 fraction digits    *)
(* in each notation, and the documented examples.                           *)
(***************************************************************************)
DecimalAlphabet == {"0", "5", "9", ".", ",", "-", "+", "(", ")", "$", " ", "U+FF11"}

IntegerTokens ==
  {<<>>, <<"0">>, <<"7">>, <<"9">>, <<"0", "0", "7">>, <<"9", "9">>, <<"1", "2", "0">>}

FractionTokens ==
  {body \o tail : body \in SeqsUpTo({"0", "9"}, MaxFracBody),
                  tail \in {<<>>, <<"4">>, <<"5">>, <<"4", "9">>, <<"5", "0">>}}

Notations == {"plain", "minus", "plus", "parens", "dollar", "parens-dollar", "spaced"}

Notate(n, digits) ==
  CASE n = "plain" -> digits
    [] n = "minus" -> <<"-">> \o digits
    [] n = "plus" -> <<"+">> \o digits
    [] n = "parens" -> <<"(">> \o digits \o <<")">>
    [] n = "dollar" -> <<"$">> \o digits
    [] n = "parens-dollar" -> <<"(", "U+20B9">> \o digits \o <<")">>
    [] n = "spaced" -> <<" ", "-", " ">> \o digits \o <<" ">>

Txt_10_1234565 == <<"1", "0", ".", "1", "2", "3", "4", "5", "6", "5">>
Txt_10_123457 == <<"1", "0", ".", "1", "2", "3", "4", "5", "7">>
Txt_Dollar_1_234_505 == <<"$", "1", ",", "2", "3", "4", ".", "5", "0", "5">>
Txt_1234_51 == <<"1", "2", "3", "4", ".", "5", "1">>
Txt_1234_505000 == <<"1", "2", "3", "4", ".", "5", "0", "5", "0", "0", "0">>
Txt_Paren_99_99 == <<"(", "9", "9", ".", "9", "9", ")">>
Txt_Minus_99_99 == <<"-", "9", "9", ".", "9", "9">>
Txt_Minus_99_990000 == <<"-", "9", "9", ".", "9", "9", "0", "0", "0", "0">>

DecimalInputs ==
  SeqsUpTo(DecimalAlphabet, MaxDecLen)
    \cup {Notate(n, i \o <<".">> \o f) : n \in Notations, i \in IntegerTokens, f \in FractionTokens}
    \cup {Notate(n, i) : n \in Notations, i \in IntegerTokens}
    \cup {Txt_10_1234565, Txt_Dollar_1_234_505, Txt_Paren_99_99}

InitDecimal ==
  /\ call \in {[fn |-> "normalizeDecimalString", arg |-> a] : a \in DecimalInputs}
  /\ ret = Pending
  /\ EmptyStore

CallNormalizeDecimalString ==
  /\ call.fn = "normalizeDecimalString"
  /\ ret = Pending
  /\ ret' = normalizeDecimalString(call.arg)
  /\ UNCHANGED <<call, storeVars>>

NextDecimal == CallNormalizeDecimalString

SpecDecimal == InitDecimal /\ [][NextDecimal]_vars

(***************************************************************************)
(* Reading a decimal text back as numbers, for stating what the normalizer *)
(* must return.                                                            *)
(***************************************************************************)
\* -?(0|[1-9][0-9]*)\.[0-9]{6}
IsFixedScaleDecimal(s) ==
  LET body == IF StartsWith(s, "-") THEN Tail(s) ELSE s
      n == Len(body)
  IN  /\ n >= 8
      /\ body[n - 6] = "."
      /\ \A i \in 1..n : i # n - 6 => IsDigit(body[i])
      /\ (n - 7 >= 2 => body[1] # "0")

OutNegative(s) == StartsWith(s, "-")

OutWhole(s) ==
  LET body == IF StartsWith(s, "-") THEN Tail(s) ELSE s
  IN  NatOf(SubSeq(body, 1, Len(body) - 7))

OutFraction(s) == NatOf(SubSeq(s, Len(s) - 5, Len(s)))

\* The digits and the dot of the input, whatever surrounds them.
InDigits(arg) == SelectSeq(NFKC(arg), LAMBDA c : IsDigit(c) \/ c = ".")

InDot(arg) ==
  LET d == InDigits(arg)
  IN  IF "." \in Range(d) THEN CHOOSE i \in DOMAIN d : d[i] = "." ELSE Len(d) + 1

InWhole(arg) == NatOf(SubSeq(InDigits(arg), 1, InDot(arg) - 1))

\* The first seven fraction digits as a number of ten-millionths.
InFraction7(arg) ==
  LET d == InDigits(arg)
  IN  NatOf(PadEnd(Take(SubSeq(d, InDot(arg) + 1, Len(d)), 7), 7, "0"))

\* Half-up on the seventh digit: add five ten-millionths and drop the digit.
HalfUpMillionths(arg) == (InFraction7(arg) + 5) \div 10

ExpectedWhole(arg) == InWhole(arg) + HalfUpMillionths(arg) \div 1000000

ExpectedFraction(arg) == HalfUpMillionths(arg) % 1000000

ExpectedNegative(arg) ==
  /\ "-" \in Range(arg) \/ "(" \in Range(arg)
  /\ ExpectedWhole(arg) # 0 \/ ExpectedFraction(arg) # 0

DecimalReturned ==
  call.fn = "normalizeDecimalString" /\ ret # Pending /\ ret # Null

\* C8: whenever normalizeDecimalString returns a value it is an optional "-",
\* an integer part without leading zeros (a bare 0 allowed) and exactly six
\* fraction digits; its value is the input rounded half-up on the seventh
\* fraction digit, the carry reaching the integer part ("10.1234565" gives
\* "10.123457"); a zero result has no minus sign.
C8_FixedScaleHalfUp ==
  DecimalReturned =>
    /\ IsFixedScaleDecimal(ret)
    /\ OutWhole(ret) = ExpectedWhole(call.arg)
    /\ OutFraction(ret) = ExpectedFraction(call.arg)
    /\ OutNegative(ret) = ExpectedNegative(call.arg)
    /\ (OutWhole(ret) = 0 /\ OutFraction(ret) = 0 => ~OutNegative(ret))
    /\ (call.arg = Txt_10_1234565 => ret = Txt_10_123457)

\* C8 witness: "-9.9999995" was normalized, the half-up carry running through
\* all six fraction digits into the integer part.
C8_Witness_CarryIntoInteger ==
  /\ DecimalReturned
  /\ call.arg = <<"-", "9", ".", "9", "9", "9", "9", "9", "9", "5">>
  /\ ret = <<"-", "1", "0", ".", "0", "0", "0", "0", "0", "0">>

Negated(r) == IF r = Null \/ (OutWhole(r) = 0 /\ OutFraction(r) = 0) THEN r ELSE <<"-">> \o r

HasParens(s) == "(" \in Range(s) \/ ")" \in Range(s)

HasSign(s) == "-" \in Range(s) \/ "+" \in Range(s)

\* C9 as stated: "$1,234.505" normalizes to "1234.51" and "(99.99)" to "-99.99".
C9_Original_TwoDigitExamples ==
  call.fn = "normalizeDecimalString" /\ ret # Pending =>
    /\ (call.arg = Txt_Dollar_1_234_505 => ret = Txt_1234_51)
    /\ (call.arg = Txt_Paren_99_99 => ret = Txt_Minus_99_99)

\* C9 amended: currency symbols and thousands separators are stripped (a text
\* without parentheses normalizes as the same text without them), a
\* parenthesized unsigned value is the negative of the value inside, and at
\* the fixed scale of six "$1,234.505" gives "1234.505000" and "(99.99)"
\* gives "-99.990000".
C9_SymbolsStrippedParensNegative ==
  call.fn = "normalizeDecimalString" /\ ret # Pending =>
    LET t == Trim(NFKC(call.arg))
        inner == SubSeq(t, 2, Len(t) - 1)
    IN  /\ (~HasParens(t) =>
              ret = normalizeDecimalString(RemoveChars(t, CurrencySymbolsAndComma)))
        /\ (StartsWith(t, "(") /\ EndsWith(t, ")") /\ ~HasParens(inner) /\ ~HasSign(inner) =>
              ret = Negated(normalizeDecimalString(inner)))
        /\ (call.arg = Txt_Dollar_1_234_505 => ret = Txt_1234_505000)
        /\ (call.arg = Txt_Paren_99_99 => ret = Txt_Minus_99_990000)

\* C9 witness: "$1,234.505" was normalized to the six-digit "1234.505000".
C9_Witness_DollarExample ==
  /\ call.fn = "normalizeDecimalString"
  /\ call.arg = Txt_Dollar_1_234_505
  /\ ret = Txt_1234_505000

(***************************************************************************)
(* Field-role classification of a key.                                     *)
(***************************************************************************)
UpperChars == <<"A", "B", "C", "D", "E", "F", "G", "H", "I", "J", "K", "L", "M",
                "N", "O", "P", "Q", "R", "S", "T", "U", "V", "W", "X", "Y", "Z">>

LowerChars == <<"a", "b", "c", "d", "e", "f", "g", "h", "i", "j", "k", "l", "m",
                "n", "o", "p", "q", "r", "s", "t", "u", "v", "w", "x", "y", "z">>

ToLowerChar(c) ==
  IF c \in Range(UpperChars)
  THEN LowerChars[CHOOSE i \in DOMAIN UpperChars : UpperChars[i] = c]
  ELSE c

ToLowerCase(s) == [i \in DOMAIN s |-> ToLowerChar(s[i])]

\* s.replace(/\s+/g, r) for a replacement r of one character: of every run
\* of whitespace the first character is kept, as r, and the others go.
ReplaceSpaceRuns(s, r) ==
  LET kept == SelectSeq([i \in DOMAIN s |-> i],
                        LAMBDA i : ~IsSpace(s[i]) \/ i = 1 \/ ~IsSpace(s[i - 1]))
  IN  [k \in DOMAIN kept |-> IF IsSpace(s[kept[k]]) THEN r[1] ELSE s[kept[k]]]

normalizeRuleKey(rawKey) ==
  IF rawKey = Null \/ rawKey = <<>> THEN <<>>
  ELSE ReplaceSpaceRuns(ToLowerCase(Trim(NFKC(rawKey))), <<"_">>)

\* /(^|_)(w1|w2|...)$/.test(key)
EndsWithWord(key, words) ==
  \E w \in words :
    \/ key = w
    \/ /\ Len(key) > Len(w)
       /\ SubSeq(key, Len(key) - Len(w) + 1, Len(key)) = w
       /\ key[Len(key) - Len(w)] = "_"

K_date == <<"d", "a", "t", "e">>
K_time == <<"t", "i", "m", "e">>
K_timestamp == <<"t", "i", "m", "e", "s", "t", "a", "m", "p">>
K_datetime == <<"d", "a", "t", "e", "t", "i", "m", "e">>
K_posted_at == <<"p", "o", "s", "t", "e", "d", "_", "a", "t">>
K_occurred_at == <<"o", "c", "c", "u", "r", "r", "e", "d", "_", "a", "t">>
K_transaction_date ==
  <<"t", "r", "a", "n", "s", "a", "c", "t", "i", "o", "n", "_", "d", "a", "t", "e">>
K_value_date == <<"v", "a", "l", "u", "e", "_", "d", "a", "t", "e">>
K_posted_date == <<"p", "o", "s", "t", "e", "d", "_", "d", "a", "t", "e">>
K_amount == <<"a", "m", "o", "u", "n", "t">>
K_amt == <<"a", "m", "t">>
K_debit == <<"d", "e", "b", "i", "t">>
K_credit == <<"c", "r", "e", "d", "i", "t">>
K_balance == <<"b", "a", "l", "a", "n", "c", "e">>
K_fee == <<"f", "e", "e">>
K_total == <<"t", "o", "t", "a", "l">>
K_value == <<"v", "a", "l", "u", "e">>
K_transaction_amount ==
  <<"t", "r", "a", "n", "s", "a", "c", "t", "i", "o", "n", "_", "a", "m", "o", "u", "n", "t">>
K_description == <<"d", "e", "s", "c", "r", "i", "p", "t", "i", "o", "n">>
K_merchant == <<"m", "e", "r", "c", "h", "a", "n", "t">>
K_memo == <<"m", "e", "m", "o">>
K_narration == <<"n", "a", "r", "r", "a", "t", "i", "o", "n">>
K_payee == <<"p", "a", "y", "e", "e">>
K_details == <<"d", "e", "t", "a", "i", "l", "s">>

DATE_FIELD_WORDS ==
  {K_date, K_time, K_timestamp, K_datetime, K_posted_at, K_occurred_at,
   K_transaction_date, K_value_date}

NUMERIC_FIELD_WORDS ==
  {K_amount, K_amt, K_debit, K_credit, K_balance, K_fee, K_total, K_value}

LOWERCASE_TEXT_FIELD_KEYS ==
  {K_description, K_merchant, K_memo, K_narration, K_payee, K_details}

isDateFieldKey(rawKey) == EndsWithWord(normalizeRuleKey(rawKey), DATE_FIELD_WORDS)

isNumericFieldKey(rawKey) == EndsWithWord(normalizeRuleKey(rawKey), NUMERIC_FIELD_WORDS)

isLowercaseTextFieldKey(rawKey) == normalizeRuleKey(rawKey) \in LOWERCASE_TEXT_FIELD_KEYS

(***************************************************************************)
(* Dates.  Date.UTC and the getUTC* accessors are the ECMAScript day       *)
(* arithmetic: a (year, month index, day) triple, each field free to run   *)
(* over, becomes a day number and is read back as a calendar date.         *)
(***************************************************************************)
\* Day number (days since 1970-01-01) of calendar date y-m-d, m in 1..12.
DayFromCivil(y, m, d) ==
  LET yy == IF m <= 2 THEN y - 1 ELSE y
      era == yy \div 400
      yoe == yy - era * 400
      mp == IF m > 2 THEN m - 3 ELSE m + 9
      doy == (153 * mp + 2) \div 5 + d - 1
      doe == yoe * 365 + yoe \div 4 - yoe \div 100 + doy
  IN  era * 146097 + doe - 719468

\* The calendar date <<y, m, d>> of a day number.
CivilFromDay(z) ==
  LET zz == z + 719468
      era == zz \div 146097
      doe == zz - era * 146097
      yoe == (doe - doe \div 1460 + doe \div 36524 - doe \div 146096) \div 365
      doy == doe - (365 * yoe + yoe \div 4 - yoe \div 100)
      mp == (5 * doy + 2) \div 153
      d == doy - (153 * mp + 2) \div 5 + 1
      m == IF mp < 10 THEN mp + 3 ELSE mp - 9
  IN  <<yoe + era * 400 + (IF m <= 2 THEN 1 ELSE 0), m, d>>

\* Date.UTC(year, monthIndex, day) as a day number: a year 0..99 means
\* 1900 + year; the month index and the day may lie outside their ranges.
DateUTC(year, monthIndex, day) ==
  LET fullYear == IF year >= 0 /\ year <= 99 THEN 1900 + year ELSE year
      ym == fullYear + monthIndex \div 12
      mn == monthIndex % 12
  IN  DayFromCivil(ym, mn + 1, 1) + day - 1

\* n.toString().padStart(width, "0")
RECURSIVE NatToText(_)
NatToText(n) ==
  IF n < 10 THEN <<DigitChars[n + 1]>> ELSE NatToText(n \div 10) \o <<DigitChars[(n % 10) + 1]>>

\* The number written without its leading zeros.
ZeroPad_NoPadding(n, width) == NatToText(n)

ZeroPad(n, width) == PadStart(NatToText(n), width, "0")

\* toISOString().slice(0, 10) of a day number in the years 0..9999
IsoDateText(dayNumber) ==
  LET c == CivilFromDay(dayNumber)
  IN  ZeroPad(c[1], 4) \o <<"-">> \o ZeroPad(c[2], 2) \o <<"-">> \o ZeroPad(c[3], 2)

toIsoDate(year, month, day) ==
  LET candidate == DateUTC(year, month - 1, day)
      c == CivilFromDay(candidate)
  IN  IF c[1] # year \/ c[2] - 1 # month - 1 \/ c[3] # day THEN Null
      ELSE IsoDateText(candidate)

normalizeTwoDigitYear_PivotAbove70(twoDigitYear) ==
  IF twoDigitYear > 70 THEN 1900 + twoDigitYear ELSE 2000 + twoDigitYear

normalizeTwoDigitYear(twoDigitYear) ==
  IF twoDigitYear >= 70 THEN 1900 + twoDigitYear ELSE 2000 + twoDigitYear

AllDigits(s) == \A i \in DOMAIN s : IsDigit(s[i])

\* /^(\d{4})-(\d{2})-(\d{2})$/.exec(trimmed): the three groups, or Null.
IsoDateMatch(s) ==
  IF /\ Len(s) = 10
     /\ s[5] = "-" /\ s[8] = "-"
     /\ AllDigits(SubSeq(s, 1, 4)) /\ AllDigits(SubSeq(s, 6, 7)) /\ AllDigits(SubSeq(s, 9, 10))
  THEN <<SubSeq(s, 1, 4), SubSeq(s, 6, 7), SubSeq(s, 9, 10)>>
  ELSE Null

\* /^(\d{1,2})[/-](\d{1,2})[/-](\d{2,4})$/.exec(trimmed): the three groups, or Null.
SlashDateMatch(s) ==
  LET seps == {i \in DOMAIN s : s[i] \in {"/", "-"}}
  IN  IF Cardinality(seps) # 2 THEN Null
      ELSE LET p == CHOOSE i \in seps : \A j \in seps : i <= j
               q == CHOOSE i \in seps : \A j \in seps : j <= i
               a == SubSeq(s, 1, p - 1)
               b == SubSeq(s, p + 1, q - 1)
               c == SubSeq(s, q + 1, Len(s))
           IN  IF /\ AllDigits(a) /\ Len(a) \in 1..2
                  /\ AllDigits(b) /\ Len(b) \in 1..2
                  /\ AllDigits(c) /\ Len(c) \in 2..4
               THEN <<a, b, c>>
               ELSE Null

\* The ECMAScript date-time format toISOString() writes,
\* YYYY-MM-DDTHH:mm:ss.sssZ, naming a real instant.
IsIsoInstant(s) ==
  /\ Len(s) = 24
  /\ s[11] = "T" /\ s[14] = ":" /\ s[17] = ":" /\ s[20] = "." /\ s[24] = "Z"
  /\ IsoDateMatch(SubSeq(s, 1, 10)) # Null
  /\ AllDigits(SubSeq(s, 12, 13)) /\ AllDigits(SubSeq(s, 15, 16))
  /\ AllDigits(SubSeq(s, 18, 19)) /\ AllDigits(SubSeq(s, 21, 23))
  /\ LET y == NatOf(SubSeq(s, 1, 4))
         m == NatOf(SubSeq(s, 6, 7))
         d == NatOf(SubSeq(s, 9, 10))
     IN  /\ m \in 1..12 /\ d >= 1
         /\ CivilFromDay(DayFromCivil(y, m, d)) = <<y, m, d>>
  /\ NatOf(SubSeq(s, 12, 13)) <= 23
  /\ NatOf(SubSeq(s, 15, 16)) <= 59
  /\ NatOf(SubSeq(s, 18, 19)) <= 59

\* new Date(Date.parse(trimmed)).toISOString(), Null when Date.parse gives NaN.
\* A text in the format toISOString() writes parses to the instant it names.
\* What Date.parse makes of any other text is left to the engine (and its
\* time zone): hostParse is the engine's answer, NaN (Null) or an instant.
DateParseToISOString(trimmed, hostParse) ==
  IF IsIsoInstant(trimmed) THEN trimmed ELSE hostParse

normalizeDateString(value, hostParse) ==
  LET trimmed == Trim(NFKC(value))
      isoDateMatch == IsoDateMatch(trimmed)
      slashDateMatch == SlashDateMatch(trimmed)
  IN  IF trimmed = <<>> THEN Null
      ELSE IF isoDateMatch # Null
      THEN toIsoDate(NatOf(isoDateMatch[1]), NatOf(isoDateMatch[2]), NatOf(isoDateMatch[3]))
      ELSE IF slashDateMatch # Null
      THEN LET month == NatOf(slashDateMatch[1])
               day == NatOf(slashDateMatch[2])
               yearToken == slashDateMatch[3]
               rawYear == NatOf(yearToken)
               year == IF Len(yearToken) = 2 THEN normalizeTwoDigitYear(rawYear) ELSE rawYear
           IN  toIsoDate(year, month, day)
      ELSE DateParseToISOString(trimmed, hostParse)

(***************************************************************************)
(* JavaScript values of a row: a string, a number (held as the text        *)
(* String(value) gives), a boolean or null.                                *)
(***************************************************************************)
JsStr(s) == [t |-> "string", v |-> s]
JsNum(s) == [t |-> "number", v |-> s]
JsBool(b) == [t |-> "boolean", v |-> IF b THEN <<"t", "r", "u", "e">> ELSE <<"f", "a", "l", "s", "e">>]
JsNull == [t |-> "null", v |-> <<>>]

Txt_NaN == <<"N", "a", "N">>
Txt_Infinity == <<"I", "n", "f", "i", "n", "i", "t", "y">>

\* Number.isFinite(value)
IsFiniteNum(x) == x.v \notin {Txt_NaN, Txt_Infinity, <<"-">> \o Txt_Infinity}

OrElse(a, b) == IF a # Null THEN a ELSE b

normalizeScalarValue(value, fieldKey, hostParse) ==
  IF value.t = "boolean" THEN value
  ELSE IF value.t = "number"
  THEN IF ~IsFiniteNum(value) THEN JsStr(value.v)
       ELSE IF isNumericFieldKey(fieldKey)
       THEN JsStr(OrElse(normalizeDecimalString(value.v), value.v))
       ELSE value
  ELSE LET normalizedString == Trim(NFKC(value.v))
           normalizedDate ==
             IF isDateFieldKey(fieldKey)
             THEN normalizeDateString(normalizedString, hostParse) ELSE Null
           normalizedDecimal ==
             IF isNumericFieldKey(fieldKey)
             THEN normalizeDecimalString(normalizedString) ELSE Null
       IN  IF normalizedDate # Null THEN JsStr(normalizedDate)
           ELSE IF normalizedDecimal # Null THEN JsStr(normalizedDecimal)
           ELSE IF isLowercaseTextFieldKey(fieldKey)
           THEN JsStr(ReplaceSpaceRuns(ToLowerCase(normalizedString), <<" ">>))
           ELSE JsStr(normalizedString)

(***************************************************************************)
(* Date-role fields under test: every M/D/Y text over the month, day and   *)
(* year tokens below (all hundred two-digit years), ISO dates real and     *)
(* not, every short text over the date characters, and the documented      *)
(* examples; each under a date-role key and each answer of the engine.     *)
(***************************************************************************)
MonthTokens == {<<"0">>, <<"1">>, <<"2">>, <<"3">>, <<"0", "2">>, <<"1", "2">>, <<"1", "3">>}

DayTokens ==
  {<<"0">>, <<"1">>, <<"5">>, <<"0", "5">>, <<"2", "8">>, <<"2", "9">>, <<"3", "0">>,
   <<"3", "1">>, <<"3", "2">>}

TwoDigitYearTokens == [1..2 -> Range(DigitChars)]

LongYearTokens ==
  {<<"1", "0", "0">>, <<"0", "0", "5", "0">>, <<"1", "9", "0", "0">>, <<"1", "9", "7", "0">>,
   <<"2", "0", "0", "0">>, <<"2", "0", "2", "4">>, <<"2", "0", "2", "6">>, <<"9", "9", "9", "9">>}

FourDigitYearTokens ==
  {<<"0", "0", "0", "0">>, <<"0", "1", "2", "3">>} \cup {y \in LongYearTokens : Len(y) = 4}

IsoMonthTokens ==
  {<<"0", "0">>, <<"0", "1">>, <<"0", "2">>, <<"0", "4">>, <<"1", "2">>, <<"1", "3">>}

IsoDayTokens ==
  {<<"0", "0">>, <<"0", "1">>, <<"2", "8">>, <<"2", "9">>, <<"3", "0">>, <<"3", "1">>,
   <<"3", "2">>}

SeparatorPairs == {<<"/", "/">>, <<"-", "-">>, <<"/", "-">>}

Txt_2026_02_30 == <<"2", "0", "2", "6", "-", "0", "2", "-", "3", "0">>
Txt_2026_02_15 == <<"2", "0", "2", "6", "-", "0", "2", "-", "1", "5">>
Txt_2026_03_05 == <<"2", "0", "2", "6", "-", "0", "3", "-", "0", "5">>
Txt_2069_03_05 == <<"2", "0", "6", "9", "-", "0", "3", "-", "0", "5">>
Txt_1970_03_05 == <<"1", "9", "7", "0", "-", "0", "3", "-", "0", "5">>
Txt_3_5_26 == <<"3", "/", "5", "/", "2", "6">>
Txt_3_5_69 == <<"3", "/", "5", "/", "6", "9">>
Txt_3_5_70 == <<"3", "/", "5", "/", "7", "0">>
Txt_Instant ==
  Txt_2026_02_15 \o <<"T", "1", "0", ":", "0", "0", ":", "0", "0", ".", "0", "0", "0", "Z">>
Txt_InstantHost ==
  <<"2", "0", "2", "6", "-", "0", "2", "-", "1", "4">>
    \o <<"T", "1", "8", ":", "3", "0", ":", "0", "0", ".", "0", "0", "0", "Z">>

HostParseAnswers == {Null, Txt_InstantHost}

DateInputs ==
  {m \o <<sp[1]>> \o d \o <<sp[2]>> \o y :
     m \in MonthTokens, d \in DayTokens, sp \in SeparatorPairs,
     y \in TwoDigitYearTokens \cup LongYearTokens}
    \cup {y \o <<"-">> \o m \o <<"-">> \o d :
            y \in FourDigitYearTokens, m \in IsoMonthTokens, d \in IsoDayTokens}
    \cup SeqsUpTo({"1", "2", "/", "-", " ", "T"}, MaxDateLen)
    \cup {Txt_2026_02_30, Txt_3_5_26, Txt_3_5_69, Txt_3_5_70, Txt_Instant,
          <<" ">> \o Txt_3_5_70 \o <<"U+00A0">>}

K_Posted_At == <<"P", "o", "s", "t", "e", "d", " ", "A", "t">>

DateRoleKeys == {K_date, K_Posted_At}

\* A call on JavaScript values that has not returned yet.
JsPending == [t |-> "pending"]

InitDate ==
  /\ call \in {[fn |-> "normalizeScalarValue", arg |-> JsStr(a), key |-> k, host |-> h] :
                 a \in DateInputs, k \in DateRoleKeys, h \in HostParseAnswers}
  /\ ret = JsPending
  /\ EmptyStore

CallNormalizeScalarValue ==
  /\ call.fn = "normalizeScalarValue"
  /\ ret = JsPending
  /\ ret' = normalizeScalarValue(call.arg, call.key, call.host)
  /\ UNCHANGED <<call, storeVars>>

NextDate == CallNormalizeScalarValue

SpecDate == InitDate /\ [][NextDate]_vars

(***************************************************************************)
(* The calendar, for stating what date normalization must return.          *)
(***************************************************************************)
IsLeapYear(y) == y % 4 = 0 /\ (y % 100 # 0 \/ y % 400 = 0)

DaysInMonth(y, m) ==
  IF m = 2 THEN (IF IsLeapYear(y) THEN 29 ELSE 28)
  ELSE IF m \in {4, 6, 9, 11} THEN 30 ELSE 31

IsRealDate(y, m, d) == m \in 1..12 /\ d \in 1..DaysInMonth(y, m)

\* The fields of a text, cut at every character that is not a digit.
RECURSIVE DigitFields(_)
DigitFields(s) ==
  IF \A i \in DOMAIN s : IsDigit(s[i]) THEN <<s>>
  ELSE LET p == CHOOSE i \in DOMAIN s : ~IsDigit(s[i]) /\ \A j \in 1..(i - 1) : IsDigit(s[j])
       IN  <<SubSeq(s, 1, p - 1)>> \o DigitFields(SubSeq(s, p + 1, Len(s)))

Separators(s) == SelectSeq(s, LAMBDA c : ~IsDigit(c))

\* YYYY-MM-DD
IsIsoShaped(s) ==
  /\ Separators(s) = <<"-", "-">>
  /\ [i \in 1..3 |-> Len(DigitFields(s)[i])] = <<4, 2, 2>>

\* M/D/YY or M-D-YY, one or two digits for month and day
IsShortYearShaped(s) ==
  /\ Len(Separators(s)) = 2
  /\ Range(Separators(s)) \subseteq {"/", "-"}
  /\ Len(DigitFields(s)[1]) \in 1..2
  /\ Len(DigitFields(s)[2]) \in 1..2
  /\ Len(DigitFields(s)[3]) = 2

PivotYear(yy) == IF yy < 70 THEN 2000 + yy ELSE 1900 + yy

DateText(y, m, d) == ZeroPad(y, 4) \o <<"-">> \o ZeroPad(m, 2) \o <<"-">> \o ZeroPad(d, 2)

DateRoleReturned ==
  /\ call.fn = "normalizeScalarValue"
  /\ ret # JsPending
  /\ call.arg.t = "string"
  /\ isDateFieldKey(call.key)

\* C10: in a date-role field an ISO YYYY-MM-DD text that names no real
\* calendar date is passed through unchanged ("2026-02-30"); an M/D/YY or
\* M-D-YY text naming a real date becomes YYYY-MM-DD, a two-digit year
\* >= 70 read as 19YY and < 70 as 20YY ("3/5/26" gives "2026-03-05",
\* "3/5/69" the year 2069, "3/5/70" the year 1970).
C10_DateRoleNormalization ==
  DateRoleReturned =>
    LET t == Trim(NFKC(call.arg.v))
        f == DigitFields(t)
    IN  /\ (IsIsoShaped(t) /\ ~IsRealDate(NatOf(f[1]), NatOf(f[2]), NatOf(f[3])) =>
              ret = JsStr(t))
        /\ (IsShortYearShaped(t) /\ IsRealDate(PivotYear(NatOf(f[3])), NatOf(f[1]), NatOf(f[2])) =>
              ret = JsStr(DateText(PivotYear(NatOf(f[3])), NatOf(f[1]), NatOf(f[2]))))
        /\ (call.arg.v = Txt_2026_02_30 => ret = JsStr(Txt_2026_02_30))
        /\ (call.arg.v = Txt_3_5_26 => ret = JsStr(Txt_2026_03_05))
        /\ (call.arg.v = Txt_3_5_69 => ret = JsStr(Txt_2069_03_05))
        /\ (call.arg.v = Txt_3_5_70 => ret = JsStr(Txt_1970_03_05))

\* C10 witness: "3/5/70" in a date-role field came back as "1970-03-05".
C10_Witness_Pivot70 ==
  /\ DateRoleReturned
  /\ call.arg.v = Txt_3_5_70
  /\ ret = JsStr(Txt_1970_03_05)

(***************************************************************************)
(* Extraction: the kind of an upload, the CSV reader and the PDF stub.     *)
(* A JavaScript object is the sequence of its <<key, value>> entries in    *)
(* insertion order; an extracted record is [rawJson, rowIndex].            *)
(***************************************************************************)
\* The pieces of s between the occurrences of the character sep.
RECURSIVE Split(_, _)
Split(s, sep) ==
  IF \A i \in DOMAIN s : s[i] # sep THEN <<s>>
  ELSE LET p == CHOOSE i \in DOMAIN s : s[i] = sep /\ \A j \in 1..(i - 1) : s[j] # sep
       IN  <<SubSeq(s, 1, p - 1)>> \o Split(SubSeq(s, p + 1, Len(s)), sep)

\* Index of the last occurrence of c in s, 0 when there is none.
LastIndexOf(s, c) ==
  IF \E i \in DOMAIN s : s[i] = c
  THEN CHOOSE i \in DOMAIN s : s[i] = c /\ \A j \in (i + 1)..Len(s) : s[j] # c
  ELSE 0

RECURSIVE StripTrailing(_, _)
StripTrailing(s, c) ==
  IF s # <<>> /\ s[Len(s)] = c THEN StripTrailing(SubSeq(s, 1, Len(s) - 1), c) ELSE s

\* path.extname: the text from the last dot of the last path component, ""
\* when that component has no dot, starts with its only dot, or is "..".
extname(path) ==
  LET trimmedPath == StripTrailing(path, "/")
      part == SubSeq(trimmedPath, LastIndexOf(trimmedPath, "/") + 1, Len(trimmedPath))
      startDot == LastIndexOf(part, ".")
  IN  IF startDot = 0 \/ startDot = 1 \/ part = <<".", ".">> THEN <<>>
      ELSE SubSeq(part, startDot, Len(part))

Txt_text_csv == <<"t", "e", "x", "t", "/", "c", "s", "v">>
Txt_application_pdf ==
  <<"a", "p", "p", "l", "i", "c", "a", "t", "i", "o", "n", "/", "p", "d", "f">>
Txt_application_json ==
  <<"a", "p", "p", "l", "i", "c", "a", "t", "i", "o", "n", "/", "j", "s", "o", "n">>
Txt_dot_csv == <<".", "c", "s", "v">>
Txt_dot_pdf == <<".", "p", "d", "f">>

detectUploadKind_MimeOnly(mimeType, originalFilename) ==
  LET normalizedMimeType == ToLowerCase(mimeType)
  IN  IF normalizedMimeType = Txt_text_csv THEN "csv"
      ELSE IF normalizedMimeType = Txt_application_pdf THEN "pdf"
      ELSE "null"

detectUploadKind(mimeType, originalFilename) ==
  LET normalizedMimeType == ToLowerCase(mimeType)
      extension == ToLowerCase(extname(originalFilename))
  IN  IF normalizedMimeType = Txt_text_csv \/ extension = Txt_dot_csv THEN "csv"
      ELSE IF normalizedMimeType = Txt_application_pdf \/ extension = Txt_dot_pdf THEN "pdf"
      ELSE "null"

isSupportedUploadFile(mimeType, originalFilename) ==
  detectUploadKind(mimeType, originalFilename) # "null"

\* The characters csv-parse drops around a field under trim: true.
IsCsvTrimmable(c) == c \in {" ", "\t", "\r", "\n"}

RECURSIVE CsvTrimStart(_)
CsvTrimStart(s) ==
  IF s = <<>> \/ ~IsCsvTrimmable(Head(s)) THEN s ELSE CsvTrimStart(Tail(s))

RECURSIVE CsvTrimEnd(_)
CsvTrimEnd(s) ==
  IF s = <<>> \/ ~IsCsvTrimmable(s[Len(s)]) THEN s
  ELSE CsvTrimEnd(SubSeq(s, 1, Len(s) - 1))

\* csv-parse/sync on a text without quote characters and with "\n" between
\* records, under { columns: false, skip_empty_lines: true, trim: true,
\* bom: true, relax_column_count: true }: the byte order mark is dropped,
\* every line is cut at the commas, every field trimmed, and a line with
\* nothing in it is skipped.
parseCsv(text) ==
  LET body == IF text # <<>> /\ Head(text) = "U+FEFF" THEN Tail(text) ELSE text
      lines == Split(body, "\n")
      fieldsOf(line) ==
        LET cut == Split(line, ",") IN [i \in DOMAIN cut |-> CsvTrimEnd(CsvTrimStart(cut[i]))]
      rows == [i \in DOMAIN lines |-> fieldsOf(lines[i])]
  IN  SelectSeq(rows, LAMBDA r : r # <<<<>>>>)

\* obj[key] = value: a new key is appended, a present key keeps its place.
ObjectSet(obj, key, value) ==
  IF \E i \in DOMAIN obj : obj[i][1] = key
  THEN [i \in DOMAIN obj |-> IF obj[i][1] = key THEN <<key, value>> ELSE obj[i]]
  ELSE Append(obj, <<key, value>>)

Txt_column_ == <<"c", "o", "l", "u", "m", "n", "_">>

\* The row payload with a key only for the fields the row holds.
RECURSIVE RowPayload_NoNull(_, _, _)
RowPayload_NoNull(headers, values, n) ==
  IF n = 0 THEN <<>>
  ELSE IF n > Len(values) THEN RowPayload_NoNull(headers, values, n - 1)
  ELSE ObjectSet(RowPayload_NoNull(headers, values, n - 1), headers[n], JsStr(values[n]))

RECURSIVE RowPayload(_, _, _)
RowPayload(headers, values, n) ==
  IF n = 0 THEN <<>>
  ELSE ObjectSet(RowPayload(headers, values, n - 1), headers[n],
                 IF n <= Len(values) THEN JsStr(values[n]) ELSE JsNull)

\* extractCsv numbering the data rows from the header row.
extractCsv_IndexFromHeader(fileBuffer) ==
  LET rows == parseCsv(fileBuffer)
  IN  IF Len(rows) = 0 THEN [rawMimeType |-> Txt_text_csv, records |-> <<>>]
      ELSE LET headerRow == rows[1]
               headers ==
                 [index \in DOMAIN headerRow |->
                    IF Len(headerRow[index]) > 0 THEN headerRow[index]
                    ELSE Txt_column_ \o NatToText(index)]
           IN  [rawMimeType |-> Txt_text_csv,
                records |->
                  [index \in 1..(Len(rows) - 1) |->
                     [rawJson |-> RowPayload(headers, rows[index + 1], Len(headers)),
                      rowIndex |-> index]]]

extractCsv(fileBuffer) ==
  LET rows == parseCsv(fileBuffer)
  IN  IF Len(rows) = 0 THEN [rawMimeType |-> Txt_text_csv, records |-> <<>>]
      ELSE LET headerRow == rows[1]
               headers ==
                 [index \in DOMAIN headerRow |->
                    IF Len(headerRow[index]) > 0 THEN headerRow[index]
                    ELSE Txt_column_ \o NatToText(index)]
           IN  [rawMimeType |-> Txt_text_csv,
                records |->
                  [index \in 1..(Len(rows) - 1) |->
                     [rawJson |-> RowPayload(headers, rows[index + 1], Len(headers)),
                      rowIndex |-> index - 1]]]

\* content.replace(/\u0000/g, " ").replace(/\s+/g, " ").trim()
\* normalizeText collapsing whitespace only, NUL characters kept.
normalizeText_KeepNul(content) == Trim(ReplaceSpaceRuns(content, <<" ">>))

normalizeText(content) ==
  Trim(ReplaceSpaceRuns([i \in DOMAIN content |->
                           IF content[i] = "U+0000" THEN " " ELSE content[i]], <<" ">>))

PDF_TEXT_LIMIT == 4000

Txt_text == <<"t", "e", "x", "t">>
Txt_PdfNotExtracted ==
  <<"[", "p", "d", "f", "-", "c", "o", "n", "t", "e", "n", "t", "-", "n", "o", "t", "-",
    "e", "x", "t", "r", "a", "c", "t", "e", "d", "]">>

extractPdfStub(fileBuffer) ==
  LET text == Take(normalizeText(fileBuffer), PDF_TEXT_LIMIT)
      extractedText == IF text # <<>> THEN text ELSE Txt_PdfNotExtracted
  IN  [rawMimeType |-> Txt_application_pdf,
       records |-> <<[rawJson |-> <<<<Txt_text, JsStr(extractedText)>>>>, rowIndex |-> 0]>>]

Returned(value) == [t |-> "returned", value |-> value]

Threw(message) == [t |-> "threw", message |-> message]

extractUpload(fileBuffer, mimeType, originalFilename) ==
  LET kind == detectUploadKind(mimeType, originalFilename)
  IN  IF kind = "csv" THEN Returned(extractCsv(fileBuffer))
      ELSE IF kind = "pdf" THEN Returned(extractPdfStub(fileBuffer))
      ELSE Threw("Only CSV and PDF uploads are supported.")

(***************************************************************************)
(* Uploads under test: every filename of up to MaxNameTokens pieces, each  *)
(* declared MIME type, a few file contents.                                *)
(***************************************************************************)
NameTokens ==
  {<<"a">>, <<".">>, <<"/">>, <<"c", "s", "v">>, <<"p", "d", "f">>, <<"C", "S", "V">>,
   <<"P", "d", "f">>, <<"j", "s", "o", "n">>, <<"c", "s", "v", "x">>}

RECURSIVE Concat(_)
Concat(ss) == IF ss = <<>> THEN <<>> ELSE Head(ss) \o Concat(Tail(ss))

Filenames == {Concat(ts) : ts \in SeqsUpTo(NameTokens, MaxNameTokens)}

MimeTypes ==
  {<<>>, Txt_text_csv, Txt_application_pdf, Txt_application_json,
   <<"T", "E", "X", "T", "/", "C", "S", "V">>,
   <<"A", "p", "p", "l", "i", "c", "a", "t", "i", "o", "n", "/", "P", "D", "F">>,
   Txt_text_csv \o <<";">>, <<"t", "e", "x", "t", "/", "p", "l", "a", "i", "n">>}

FileBuffers ==
  {<<>>, <<"a", ",", "b", "\n", "1", ",", "2", "\n">>, <<" ", "x", " ", " ", "y">>}

InitKind ==
  /\ call \in {[fn |-> "extractUpload", fileBuffer |-> b, mimeType |-> m,
                originalFilename |-> f] :
                 b \in FileBuffers, m \in MimeTypes, f \in Filenames}
  /\ ret = JsPending
  /\ EmptyStore

CallExtractUpload ==
  /\ call.fn = "extractUpload"
  /\ ret = JsPending
  /\ ret' = extractUpload(call.fileBuffer, call.mimeType, call.originalFilename)
  /\ UNCHANGED <<call, storeVars>>

NextKind == CallExtractUpload

SpecKind == InitKind /\ [][NextKind]_vars

(***************************************************************************)
(* What the declared type and the filename say, for stating the kind.      *)
(***************************************************************************)
MimeSays(mimeType, kind) ==
  \/ kind = "csv" /\ ToLowerCase(mimeType) = Txt_text_csv
  \/ kind = "pdf" /\ ToLowerCase(mimeType) = Txt_application_pdf

\* The filename's last component ends in the extension, after a stem.
ExtensionSays(originalFilename, kind) ==
  LET name == StripTrailing(originalFilename, "/")
      ext == IF kind = "csv" THEN Txt_dot_csv ELSE Txt_dot_pdf
  IN  /\ Len(name) > 4
      /\ ToLowerCase(SubSeq(name, Len(name) - 3, Len(name))) = ext
      /\ name[Len(name) - 4] # "/"

Indicated(c) ==
  \E kind \in {"csv", "pdf"} : MimeSays(c.mimeType, kind) \/ ExtensionSays(c.originalFilename, kind)

ExtractUploadDone == call.fn = "extractUpload" /\ ret # JsPending

\* C6: extractUpload fails with the unsupported-format error exactly when
\* neither the MIME type (text/csv, application/pdf) nor the filename
\* extension (.csv, .pdf) indicates CSV or PDF; MIME application/json with
\* no recognized extension fails; a failure returns no records.
C6_UnsupportedExactlyWhenNothingIndicates ==
  ExtractUploadDone =>
    /\ (ret.t = "threw") = ~Indicated(call)
    /\ (ret.t = "threw" => ret = Threw("Only CSV and PDF uploads are supported."))
    /\ (ret.t # "threw" => ret.t = "returned")
    /\ (/\ call.mimeType = Txt_application_json
        /\ ~ExtensionSays(call.originalFilename, "csv")
        /\ ~ExtensionSays(call.originalFilename, "pdf")
        => ret.t = "threw")

\* C6 witness: application/json with the filename "a.json" was refused.
C6_Witness_JsonRefused ==
  /\ ExtractUploadDone
  /\ call.mimeType = Txt_application_json
  /\ call.originalFilename = <<"a", ".", "j", "s", "o", "n">>
  /\ ret.t = "threw"

\* C7 as stated: whenever the MIME type is text/csv the kind is CSV and
\* whenever it is application/pdf the kind is PDF, whatever the filename
\* extension is.
C7_Original_MimeDecidesFirst ==
  ExtractUploadDone =>
    /\ (MimeSays(call.mimeType, "csv") =>
          ret.t = "returned" /\ ret.value.rawMimeType = Txt_text_csv)
    /\ (MimeSays(call.mimeType, "pdf") =>
          ret.t = "returned" /\ ret.value.rawMimeType = Txt_application_pdf)

(***************************************************************************)
(* Row identity: canonicalization, stable serialization and the hash.      *)
(* An object value is [t |-> "object", v |-> entries], an array            *)
(* [t |-> "array", v |-> items].                                           *)
(***************************************************************************)
JsObj(entries) == [t |-> "object", v |-> entries]
JsArr(items) == [t |-> "array", v |-> items]
JsUndefined == [t |-> "undefined", v |-> <<>>]

\* The characters of the model in ascending UTF-16 code unit order.
CodeUnitOrder ==
  <<"U+0000", "\t", "\n", "\r", " ", "!", "\"", "#", "$", "%", "&", "'", "(", ")", "*", "+",
    ",", "-", ".", "/">> \o DigitChars \o <<":", ";", "<", "=", ">", "?", "@">>
    \o UpperChars \o <<"[", "\\", "]", "^", "_">> \o LowerChars
    \o <<"{", "|", "}", "~", "U+00A0", "U+00A3", "U+20AC", "U+20B9", "U+FEFF", "U+FF04",
         "U+FF11">>

CodeUnit(c) == CHOOSE i \in DOMAIN CodeUnitOrder : CodeUnitOrder[i] = c

\* a < b as Array.prototype.sort compares two strings.
RECURSIVE TextLess(_, _)
TextLess(a, b) ==
  IF b = <<>> THEN FALSE
  ELSE IF a = <<>> THEN TRUE
  ELSE IF Head(a) # Head(b) THEN CodeUnit(Head(a)) < CodeUnit(Head(b))
  ELSE TextLess(Tail(a), Tail(b))

ObjectKeys(obj) == [i \in DOMAIN obj |-> obj[i][1]]

ObjectGet(obj, key) == obj[CHOOSE i \in DOMAIN obj : obj[i][1] = key][2]

SortKeys_InsertionOrder(keys) == keys

\* keys.sort()
RECURSIVE SortKeys(_)
SortKeys(keys) ==
  IF keys = <<>> THEN <<>>
  ELSE LET least == CHOOSE k \in Range(keys) : \A o \in Range(keys) : ~TextLess(o, k)
       IN  <<least>> \o SortKeys(SelectSeq(keys, LAMBDA k : k # least))

RECURSIVE canonicalizeRowValue(_, _, _)
canonicalizeRowValue(value, fieldKey, hostParse) ==
  IF value.t \in {"null", "undefined"} THEN JsNull
  ELSE IF value.t = "array"
  THEN JsArr([i \in DOMAIN value.v |-> canonicalizeRowValue(value.v[i], Null, hostParse)])
  ELSE IF value.t = "object"
  THEN LET keys == SortKeys(ObjectKeys(value.v))
       IN  JsObj([i \in DOMAIN keys |->
                    <<keys[i],
                      canonicalizeRowValue(ObjectGet(value.v, keys[i]), keys[i], hostParse)>>])
  ELSE normalizeScalarValue(value, fieldKey, hostParse)

RECURSIVE Join(_, _)
Join(parts, sep) ==
  IF parts = <<>> THEN <<>>
  ELSE IF Len(parts) = 1 THEN parts[1]
  ELSE parts[1] \o sep \o Join(Tail(parts), sep)

JsonEscapeChar(c) ==
  CASE c = "\"" -> <<"\\", "\"">>
    [] c = "\\" -> <<"\\", "\\">>
    [] c = "\n" -> <<"\\", "n">>
    [] c = "\r" -> <<"\\", "r">>
    [] c = "\t" -> <<"\\", "t">>
    [] c = "U+0000" -> <<"\\", "u", "0", "0", "0", "0">>
    [] OTHER -> <<c>>

\* A string put between quotes with nothing escaped.
JsonQuote_NoEscape(s) == <<"\"">> \o s \o <<"\"">>

\* JSON.stringify of a string
JsonQuote(s) == <<"\"">> \o Concat([i \in DOMAIN s |-> JsonEscapeChar(s[i])]) \o <<"\"">>

RECURSIVE stableSerialize(_)
stableSerialize(value) ==
  IF value.t = "null" THEN <<"n", "u", "l", "l">>
  ELSE IF value.t = "string" THEN JsonQuote(value.v)
  ELSE IF value.t = "boolean" THEN value.v
  ELSE IF value.t = "number"
  THEN IF IsFiniteNum(value) THEN value.v ELSE JsonQuote(value.v)
  ELSE IF value.t = "array"
  THEN <<"[">> \o Join([i \in DOMAIN value.v |-> stableSerialize(value.v[i])], <<",">>)
         \o <<"]">>
  ELSE IF value.t = "object"
  THEN LET keys == SortKeys(ObjectKeys(value.v))
           entries ==
             [i \in DOMAIN keys |->
                JsonQuote(keys[i]) \o <<":">> \o stableSerialize(ObjectGet(value.v, keys[i]))]
       IN  <<"{">> \o Join(entries, <<",">>) \o <<"}">>
  ELSE JsonQuote(<<"u", "n", "d", "e", "f", "i", "n", "e", "d">>)

\* SHA-256 taken as collision-free: the digest stands for the text hashed.
hashSha256(value) == <<"sha256", value>>

\* normalizeExtractedRecords hashing the rowIndex together with the row.
normalizeExtractedRecords_HashWithIndex(extracted, hostParse) ==
  [rawMimeType |-> extracted.rawMimeType,
   records |->
     [i \in DOMAIN extracted.records |->
        [rawJson |-> extracted.records[i].rawJson,
         rowIndex |-> extracted.records[i].rowIndex,
         rowSha256 |->
           hashSha256(stableSerialize(
             canonicalizeRowValue(JsObj(extracted.records[i].rawJson), Null, hostParse))
             \o NatToText(extracted.records[i].rowIndex))]]]

normalizeExtractedRecords(extracted, hostParse) ==
  [rawMimeType |-> extracted.rawMimeType,
   records |->
     [i \in DOMAIN extracted.records |->
        [rawJson |-> extracted.records[i].rawJson,
         rowIndex |-> extracted.records[i].rowIndex,
         rowSha256 |->
           hashSha256(stableSerialize(
             canonicalizeRowValue(JsObj(extracted.records[i].rawJson), Null, hostParse)))]]]

(***************************************************************************)
(* Rows under test: every row of up to MaxRowKeys distinct keys over the   *)
(* keys and values below, extracted twice, the second time with its        *)
(* columns in each of their orders.                                        *)
(***************************************************************************)
K_Amount == <<"A", "m", "o", "u", "n", "t">>

RowKeys == <<K_date, K_Amount, K_memo, <<"Z">>>>

RowValues ==
  {JsStr(<<" ", "1", ",", "2", "0", "0", ".", "5">>), JsStr(Txt_3_5_26), JsNull,
   JsObj(<<<<<<"b">>, JsNum(<<"1", ".", "5">>)>>, <<<<"a">>, JsArr(<<JsBool(TRUE)>>)>>>>)}

\* The rows whose columns stand in the order of RowKeys.
Rows ==
  {r \in SeqsUpTo(Range(RowKeys) \X RowValues, MaxRowKeys) :
     \A i, j \in DOMAIN r :
       i < j => \E m, n \in DOMAIN RowKeys : m < n /\ RowKeys[m] = r[i][1] /\ RowKeys[n] = r[j][1]}

IndexPermutations(n) == {p \in [1..n -> 1..n] : \A i, j \in 1..n : i # j => p[i] # p[j]}

Reorderings(row) == {[i \in DOMAIN row |-> row[p[i]]] : p \in IndexPermutations(Len(row))}

InitRow ==
  /\ call \in UNION {{[fn |-> "normalizeExtractedRecords",
                       extracted |-> [rawMimeType |-> Txt_text_csv,
                                      records |-> <<[rawJson |-> r, rowIndex |-> 0],
                                                    [rawJson |-> q, rowIndex |-> 1]>>],
                       host |-> h] :
                        q \in Reorderings(r), h \in HostParseAnswers} : r \in Rows}
  /\ ret = JsPending
  /\ EmptyStore

CallNormalizeExtractedRecords ==
  /\ call.fn = "normalizeExtractedRecords"
  /\ ret = JsPending
  /\ ret' = Returned(normalizeExtractedRecords(call.extracted, call.host))
  /\ UNCHANGED <<call, storeVars>>

NextRow == CallNormalizeExtractedRecords

SpecRow == InitRow /\ [][NextRow]_vars

(***************************************************************************)
(* Two rows that hold the same key-to-value associations.                  *)
(***************************************************************************)
SameAssociations(a, b) == Range(a) = Range(b) /\ Len(a) = Len(b)

NormalizeExtractedRecordsDone == call.fn = "normalizeExtractedRecords" /\ ret # JsPending

\* C1: re-ordering the key/value pairs of a row's rawJson (the same key to
\* value associations in any column order) does not change the rowSha256
\* that normalizeExtractedRecords computes for it.
C1_KeyOrderDoesNotChangeRowSha256 ==
  NormalizeExtractedRecordsDone =>
    \A i, j \in DOMAIN ret.value.records :
      SameAssociations(ret.value.records[i].rawJson, ret.value.records[j].rawJson) =>
        ret.value.records[i].rowSha256 = ret.value.records[j].rowSha256

\* C1 witness: a three-column row and the same row with its columns in a
\* different order were given one rowSha256.
C1_Witness_ReorderedRowSameHash ==
  /\ NormalizeExtractedRecordsDone
  /\ Len(ret.value.records[1].rawJson) = 3
  /\ ret.value.records[1].rawJson # ret.value.records[2].rawJson
  /\ SameAssociations(ret.value.records[1].rawJson, ret.value.records[2].rawJson)
  /\ ObjectKeys(ret.value.records[1].rawJson) # SortKeys(ObjectKeys(ret.value.records[1].rawJson))
  /\ ret.value.records[1].rowSha256 = ret.value.records[2].rowSha256

(***************************************************************************)
(* Transaction derivation from the original rawJson of each row.           *)
(***************************************************************************)
K_currency == <<"c", "u", "r", "r", "e", "n", "c", "y">>
K_currency_code == <<"c", "u", "r", "r", "e", "n", "c", "y", "_", "c", "o", "d", "e">>
K_ccy == <<"c", "c", "y">>
K_curr == <<"c", "u", "r", "r">>
K_note == <<"n", "o", "t", "e">>
K_remarks == <<"r", "e", "m", "a", "r", "k", "s">>
K_merchant_name == <<"m", "e", "r", "c", "h", "a", "n", "t", "_", "n", "a", "m", "e">>
K_account_id == <<"a", "c", "c", "o", "u", "n", "t", "_", "i", "d">>
K_account == <<"a", "c", "c", "o", "u", "n", "t">>
K_account_number == <<"a", "c", "c", "o", "u", "n", "t", "_", "n", "u", "m", "b", "e", "r">>
K_iban == <<"i", "b", "a", "n">>
K_category == <<"c", "a", "t", "e", "g", "o", "r", "y">>
K_type == <<"t", "y", "p", "e">>
K_txn_type == <<"t", "x", "n", "_", "t", "y", "p", "e">>

NORMALIZED_AMOUNT_KEYS ==
  <<K_amount, K_amt, K_debit, K_credit, K_value, K_total, K_transaction_amount>>
NORMALIZED_CURRENCY_KEYS == <<K_currency, K_currency_code, K_ccy, K_curr>>
NORMALIZED_DESCRIPTION_KEYS ==
  <<K_description, K_memo, K_narration, K_details, K_note, K_remarks>>
NORMALIZED_MERCHANT_KEYS == <<K_merchant, K_payee, K_merchant_name>>
NORMALIZED_ACCOUNT_KEYS == <<K_account_id, K_account, K_account_number, K_iban>>
NORMALIZED_CATEGORY_KEYS == <<K_category, K_type, K_txn_type>>
NORMALIZED_OCCURRED_AT_KEYS ==
  <<K_occurred_at, K_transaction_date, K_posted_at, K_posted_date, K_date, K_value_date,
    K_timestamp, K_datetime>>

normalizeFlatString(value) ==
  IF value.t \in {"null", "undefined"} THEN Null
  ELSE IF value.t = "string"
  THEN LET normalized == ReplaceSpaceRuns(Trim(NFKC(value.v)), <<" ">>)
       IN  IF Len(normalized) > 0 THEN normalized ELSE Null
  ELSE IF value.t = "number" THEN (IF ~IsFiniteNum(value) THEN Null ELSE value.v)
  ELSE IF value.t = "boolean" THEN value.v
  ELSE Null

\* The Map of normalized key to value, as its entries; a later column
\* replaces the value of an earlier one with the same normalized key.
RECURSIVE buildFieldLookup(_)
buildFieldLookup(rawJson) ==
  IF rawJson = <<>> THEN <<>>
  ELSE LET last == rawJson[Len(rawJson)]
       IN  ObjectSet(buildFieldLookup(SubSeq(rawJson, 1, Len(rawJson) - 1)),
                     normalizeRuleKey(last[1]), last[2])

\* lookup.get(key)
MapGet(lookup, key) ==
  IF \E i \in DOMAIN lookup : lookup[i][1] = key THEN ObjectGet(lookup, key) ELSE JsUndefined

pickFirstNormalizedValue_FirstKeyOnly(lookup, candidateKeys) ==
  normalizeFlatString(MapGet(lookup, Head(candidateKeys)))

\* pickFirstNormalizedValue stopping at the first key whose value is
\* present and not null, whatever it flattens to.
RECURSIVE pickFirstNormalizedValue_StopAtFirstPresent(_, _)
pickFirstNormalizedValue_StopAtFirstPresent(lookup, candidateKeys) ==
  IF candidateKeys = <<>> THEN Null
  ELSE LET value == MapGet(lookup, Head(candidateKeys))
       IN  IF value.t \notin {"undefined", "null"} THEN normalizeFlatString(value)
           ELSE pickFirstNormalizedValue_StopAtFirstPresent(lookup, Tail(candidateKeys))

RECURSIVE pickFirstNormalizedValue(_, _)
pickFirstNormalizedValue(lookup, candidateKeys) ==
  IF candidateKeys = <<>> THEN Null
  ELSE LET normalized == normalizeFlatString(MapGet(lookup, Head(candidateKeys)))
       IN  IF normalized # Null THEN normalized
           ELSE pickFirstNormalizedValue(lookup, Tail(candidateKeys))

ToUpperChar(c) ==
  IF c \in Range(LowerChars)
  THEN UpperChars[CHOOSE i \in DOMAIN LowerChars : LowerChars[i] = c]
  ELSE c

ToUpperCase(s) == [i \in DOMAIN s |-> ToUpperChar(s[i])]

Txt_USD == <<"U", "S", "D">>
Txt_EUR == <<"E", "U", "R">>
Txt_GBP == <<"G", "B", "P">>
Txt_INR == <<"I", "N", "R">>

CURRENCY_CODE_LENGTH == 3

\* normalizeCurrencyCode without its toUpperCase step.
normalizeCurrencyCode_CaseSensitive(value) ==
  IF value = Null \/ value = <<>> THEN Null
  ELSE LET cleaned ==
             SelectSeq(RemoveSpaces(Trim(NFKC(value))),
                       LAMBDA c : c \in Range(UpperChars) \cup {"$", "U+20AC", "U+00A3", "U+20B9"})
       IN  IF Len(cleaned) = CURRENCY_CODE_LENGTH THEN cleaned
           ELSE IF cleaned = <<"$">> THEN Txt_USD
           ELSE IF cleaned = <<"U+20AC">> THEN Txt_EUR
           ELSE IF cleaned = <<"U+00A3">> THEN Txt_GBP
           ELSE IF cleaned = <<"U+20B9">> THEN Txt_INR
           ELSE Null

normalizeCurrencyCode(value) ==
  IF value = Null \/ value = <<>> THEN Null
  ELSE LET cleaned ==
             SelectSeq(RemoveSpaces(ToUpperCase(Trim(NFKC(value)))),
                       LAMBDA c : c \in Range(UpperChars) \cup {"$", "U+20AC", "U+00A3", "U+20B9"})
       IN  IF Len(cleaned) = CURRENCY_CODE_LENGTH THEN cleaned
           ELSE IF cleaned = <<"$">> THEN Txt_USD
           ELSE IF cleaned = <<"U+20AC">> THEN Txt_EUR
           ELSE IF cleaned = <<"U+00A3">> THEN Txt_GBP
           ELSE IF cleaned = <<"U+20B9">> THEN Txt_INR
           ELSE Null

Txt_v1 == <<"v", "1">>

\* The candidates one row gives: none or one.
DeriveRow(row, normalizationVersion, defaultCurrency, hostParse) ==
  LET lookup == buildFieldLookup(row.rawJson)
      amountRaw == pickFirstNormalizedValue(lookup, NORMALIZED_AMOUNT_KEYS)
      amount == IF amountRaw # Null THEN normalizeDecimalString(amountRaw) ELSE Null
      currencyRaw == pickFirstNormalizedValue(lookup, NORMALIZED_CURRENCY_KEYS)
      currency == OrElse(normalizeCurrencyCode(currencyRaw), defaultCurrency)
      description == pickFirstNormalizedValue(lookup, NORMALIZED_DESCRIPTION_KEYS)
      occurredAtRaw == pickFirstNormalizedValue(lookup, NORMALIZED_OCCURRED_AT_KEYS)
  IN  IF amount = Null THEN <<>>
      ELSE IF currency = Null THEN <<>>
      ELSE IF description = Null THEN <<>>
      ELSE <<[rowSha256 |-> row.rowSha256,
              occurredAt |-> IF occurredAtRaw # Null
                             THEN normalizeDateString(occurredAtRaw, hostParse) ELSE Null,
              amount |-> amount,
              currency |-> currency,
              description |-> description,
              merchant |-> pickFirstNormalizedValue(lookup, NORMALIZED_MERCHANT_KEYS),
              accountId |-> pickFirstNormalizedValue(lookup, NORMALIZED_ACCOUNT_KEYS),
              category |-> pickFirstNormalizedValue(lookup, NORMALIZED_CATEGORY_KEYS),
              normalizationVersion |-> normalizationVersion]>>

\* options: [normalizationVersion, defaultCurrency], Null for a missing one.
deriveNormalizedTransactionsFromRows(rows, options, hostParse) ==
  LET normalizationVersion ==
        LET trimmed == Trim(OrElse(options.normalizationVersion, Txt_v1))
        IN  IF trimmed # <<>> THEN trimmed ELSE Txt_v1
      defaultCurrency == normalizeCurrencyCode(options.defaultCurrency)
  IN  Concat([i \in DOMAIN rows |->
                DeriveRow(rows[i], normalizationVersion, defaultCurrency, hostParse)])

(***************************************************************************)
(* Rows under test for derivation: every combination of an amount part, a  *)
(* currency part and a description part after a date column, alone, and    *)
(* every batch of up to MaxRows of the sample rows; each under every       *)
(* default currency.                                                       *)
(***************************************************************************)
Txt_abc == <<"a", "b", "c">>
Txt_SalaryCredit == <<" ", "S", "a", "l", "a", "r", "y", " ", " ", "C", "r", "e", "d", "i", "t", " ">>

AmountParts ==
  {<<>>,
   <<<<K_amount, JsStr(Txt_abc)>>>>,
   <<<<K_amount, JsStr(<<" ", "1", ",", "2", "0", "0", ".", "5", "0">>)>>>>,
   <<<<K_amount, JsStr(<<>>)>>, <<K_debit, JsStr(<<"(", "5", ")">>)>>>>,
   <<<<K_amount, JsStr(Txt_abc)>>, <<K_debit, JsStr(<<"5">>)>>>>,
   <<<<K_Amount \o <<" ">>, JsStr(<<"5">>)>>, <<K_amount, JsStr(<<"x">>)>>>>,
   <<<<K_amount, JsNull>>, <<K_amt, JsNum(<<"1", ".", "5">>)>>>>,
   <<<<K_total, JsBool(TRUE)>>>>}

CurrencyParts ==
  {<<>>,
   <<<<K_currency, JsStr(<<"u", "s", "d">>)>>>>,
   <<<<K_currency, JsStr(<<"r", "u", "p", "e", "e", "s">>)>>>>,
   <<<<K_currency, JsStr(<<>>)>>, <<K_ccy, JsStr(<<" ", "U+20B9">>)>>>>}

DescriptionParts ==
  {<<>>,
   <<<<K_description, JsStr(<<" ", " ">>)>>>>,
   <<<<K_description, JsStr(Txt_SalaryCredit)>>>>,
   <<<<K_description, JsStr(<<>>)>>, <<K_memo, JsStr(<<"x">>)>>>>,
   <<<<K_note, JsObj(<<>>)>>, <<K_remarks, JsNum(<<"7">>)>>>>}

DeriveRawRows ==
  {<<<<K_date, JsStr(Txt_3_5_26)>>>> \o a \o c \o d :
     a \in AmountParts, c \in CurrencyParts, d \in DescriptionParts}

SampleRawRows ==
  {<<<<K_date, JsStr(Txt_3_5_26)>>>> \o a \o d :
     a \in {<<<<K_amount, JsStr(Txt_abc)>>>>, <<<<K_amount, JsStr(<<"5">>)>>>>,
            <<<<K_debit, JsStr(<<"(", "5", ")">>)>>>>},
     d \in {<<>>, <<<<K_memo, JsStr(<<"x">>)>>>>}}

\* The normalized records of a batch of raw rows.
RecordsOf(rawJsons) ==
  normalizeExtractedRecords(
    [rawMimeType |-> Txt_text_csv,
     records |-> [i \in DOMAIN rawJsons |-> [rawJson |-> rawJsons[i], rowIndex |-> i - 1]]],
    Null).records

DefaultCurrencies == {Null, Txt_INR, <<"r", "u", "p", "e", "e", "s">>, <<"$">>}

InitDerive ==
  /\ call \in {[fn |-> "deriveNormalizedTransactionsFromRows",
                rows |-> RecordsOf(b),
                options |-> [normalizationVersion |-> Null, defaultCurrency |-> c],
                host |-> Null] :
                 b \in SeqsUpTo(SampleRawRows, MaxRows) \cup {<<r>> : r \in DeriveRawRows},
                 c \in DefaultCurrencies}
  /\ ret = JsPending
  /\ EmptyStore

CallDeriveNormalizedTransactionsFromRows ==
  /\ call.fn = "deriveNormalizedTransactionsFromRows"
  /\ ret = JsPending
  /\ ret' = Returned(deriveNormalizedTransactionsFromRows(call.rows, call.options, call.host))
  /\ UNCHANGED <<call, storeVars>>

NextDerive == CallDeriveNormalizedTransactionsFromRows

SpecDerive == InitDerive /\ [][NextDerive]_vars

(***************************************************************************)
(* What a row holds, for stating which rows give a candidate.              *)
(***************************************************************************)
\* The value of the last column whose normalized name is key.
ColumnValue(rawJson, key) ==
  LET hits == {i \in DOMAIN rawJson : normalizeRuleKey(rawJson[i][1]) = key}
  IN  IF hits = {} THEN JsUndefined
      ELSE rawJson[CHOOSE i \in hits : \A j \in hits : j <= i][2]

\* The flattened value of the first candidate key that has a non-empty one.
RoleText(rawJson, candidateKeys) ==
  LET hits == {k \in DOMAIN candidateKeys :
                 normalizeFlatString(ColumnValue(rawJson, candidateKeys[k])) # Null}
  IN  IF hits = {} THEN Null
      ELSE normalizeFlatString(
             ColumnValue(rawJson, candidateKeys[CHOOSE k \in hits : \A j \in hits : k <= j]))

FirstAmountParses(rawJson) ==
  /\ RoleText(rawJson, NORMALIZED_AMOUNT_KEYS) # Null
  /\ normalizeDecimalString(RoleText(rawJson, NORMALIZED_AMOUNT_KEYS)) # Null

\* Some column with an amount name holds a text that parses as a decimal.
SomeAmountParses(rawJson) ==
  \E i \in DOMAIN rawJson :
    /\ normalizeRuleKey(rawJson[i][1]) \in Range(NORMALIZED_AMOUNT_KEYS)
    /\ normalizeFlatString(rawJson[i][2]) # Null
    /\ normalizeDecimalString(normalizeFlatString(rawJson[i][2])) # Null

HasCurrency(rawJson, defaultCurrency) ==
  \/ normalizeCurrencyCode(RoleText(rawJson, NORMALIZED_CURRENCY_KEYS)) # Null
  \/ normalizeCurrencyCode(defaultCurrency) # Null

HasDescription(rawJson) == RoleText(rawJson, NORMALIZED_DESCRIPTION_KEYS) # Null

Hashes(records) == [i \in DOMAIN records |-> records[i].rowSha256]

DeriveDone == call.fn = "deriveNormalizedTransactionsFromRows" /\ ret # JsPending

\* C5 as stated: a row gives a candidate if and only if it has a parseable
\* amount, a currency (own or default) and a non-empty description.
C5_Original_AnyParseableAmount ==
  DeriveDone =>
    Hashes(ret.value) =
      Hashes(SelectSeq(call.rows,
                       LAMBDA row : /\ SomeAmountParses(row.rawJson)
                                    /\ HasCurrency(row.rawJson, call.options.defaultCurrency)
                                    /\ HasDescription(row.rawJson)))

\* C5: deriveNormalizedTransactionsFromRows emits a candidate for a row if
\* and only if the first non-empty amount value of the row (amount keys in
\* their order, the last of the columns sharing a normalized name) parses
\* as a decimal, the row has a currency (own or default) and a non-empty
\* description; the other rows are omitted, so the output is never longer
\* than the input, keeps the input's order, and every output rowSha256 is
\* that of the row it was derived from.
C5_CandidateIffFirstAmountParses ==
  DeriveDone =>
    /\ Hashes(ret.value) =
         Hashes(SelectSeq(call.rows,
                          LAMBDA row : /\ FirstAmountParses(row.rawJson)
                                       /\ HasCurrency(row.rawJson, call.options.defaultCurrency)
                                       /\ HasDescription(row.rawJson)))
    /\ Len(ret.value) <= Len(call.rows)

\* C5 witness: of two rows the first, whose amount does not parse, was
\* omitted and the second gave the only candidate.
C5_Witness_SecondRowOnly ==
  /\ DeriveDone
  /\ Len(call.rows) = 2
  /\ Len(ret.value) = 1
  /\ call.rows[1].rowSha256 # call.rows[2].rowSha256
  /\ ret.value[1].rowSha256 = call.rows[2].rowSha256

(***************************************************************************)
(* normalizeBankCsv: a CSV document through extractUpload,                 *)
(* normalizeExtractedRecords and deriveNormalizedTransactionsFromRows      *)
(* under the default currency INR; the bytes are given in fileBytes.       *)
(***************************************************************************)
normalizeBankCsv(input, hostParse) ==
  LET source == Trim(NFKC(input.source))
  IN  IF source = <<>> THEN Threw("source is required.")
      ELSE LET filename == source \o Txt_dot_csv
               extracted == extractUpload(input.fileBytes, Txt_text_csv, filename)
           IN  IF extracted.t = "threw" THEN extracted
               ELSE LET normalized == normalizeExtractedRecords(extracted.value, hostParse)
                        rows ==
                          deriveNormalizedTransactionsFromRows(
                            normalized.records,
                            [normalizationVersion |-> OrElse(input.normalizationVersion, Txt_v1),
                             defaultCurrency |-> Txt_INR],
                            hostParse)
                    IN  Returned([i \in DOMAIN rows |-> [row |-> rows[i], source |-> source]])

(***************************************************************************)
(* Documents under test: a header line and up to MaxRows lines made of a   *)
(* date, an amount, a currency and a description cell, a short line or an  *)
(* empty one.                                                              *)
(***************************************************************************)
Txt_HeaderLine ==
  <<"d", "a", "t", "e", ",", "a", "m", "o", "u", "n", "t", ",", "c", "u", "r", "r", "e", "n",
    "c", "y", ",", "d", "e", "s", "c", "r", "i", "p", "t", "i", "o", "n">>
Txt_HeaderLineCased ==
  <<"D", "a", "t", "e", ",", " ", "A", "m", "o", "u", "n", "t", " ", ",", "M", "e", "m", "o">>
Txt_1200_50 == <<"1", "2", "0", "0", ".", "5", "0">>
Txt_1200_500000 == <<"1", "2", "0", "0", ".", "5", "0", "0", "0", "0", "0">>
Txt_Salary_Credit == <<"S", "a", "l", "a", "r", "y", " ", "C", "r", "e", "d", "i", "t">>
Txt_salary_credit == <<"s", "a", "l", "a", "r", "y", " ", "c", "r", "e", "d", "i", "t">>
Txt_bank == <<"b", "a", "n", "k">>

CsvLines ==
  {Join(<<d, a, c, m>>, <<",">>) :
     d \in {Txt_2026_02_15, Txt_3_5_26}, a \in {Txt_1200_50, Txt_abc},
     c \in {Txt_INR, <<>>}, m \in {Txt_Salary_Credit, <<>>}}
    \cup {<<>>, Txt_2026_02_15 \o <<",", "5">>}

CsvDocument(header, lines) ==
  Concat([i \in 1..(Len(lines) + 1) |-> (IF i = 1 THEN header ELSE lines[i - 1]) \o <<"\n">>])

Txt_ExampleCsv ==
  CsvDocument(Txt_HeaderLine,
              <<Join(<<Txt_2026_02_15, Txt_1200_50, Txt_INR, Txt_Salary_Credit>>, <<",">>)>>)

InitBankCsv ==
  /\ call \in {[fn |-> "normalizeBankCsv",
                input |-> [source |-> Txt_bank, fileBytes |-> CsvDocument(h, ls),
                           normalizationVersion |-> Null],
                host |-> Null] :
                 h \in {Txt_HeaderLine, Txt_HeaderLineCased}, ls \in SeqsUpTo(CsvLines, MaxRows)}
              \cup {[fn |-> "normalizeBankCsv",
                     input |-> [source |-> src, fileBytes |-> b, normalizationVersion |-> Null],
                     host |-> Null] :
                      src \in {<<" ">>, <<>>}, b \in {<<>>, Txt_ExampleCsv}}
  /\ ret = JsPending
  /\ EmptyStore

CallNormalizeBankCsv ==
  /\ call.fn = "normalizeBankCsv"
  /\ ret = JsPending
  /\ ret' = normalizeBankCsv(call.input, call.host)
  /\ UNCHANGED <<call, storeVars>>

NextBankCsv == CallNormalizeBankCsv

SpecBankCsv == InitBankCsv /\ [][NextBankCsv]_vars

BankCsvDone == call.fn = "normalizeBankCsv" /\ ret # JsPending

ExampleDone ==
  /\ BankCsvDone
  /\ call.input.fileBytes = Txt_ExampleCsv
  /\ ret.t = "returned"

\* C4 as stated: the example CSV yields exactly one candidate with
\* occurredAt "2026-02-15", amount "1200.500000", currency "INR" and
\* description "salary credit".
C4_Original_LowercasedDescription ==
  ExampleDone =>
    /\ Len(ret.value) = 1
    /\ ret.value[1].row.occurredAt = Txt_2026_02_15
    /\ ret.value[1].row.amount = Txt_1200_500000
    /\ ret.value[1].row.currency = Txt_INR
    /\ ret.value[1].row.description = Txt_salary_credit

\* C4: the CSV with header date,amount,currency,description and the one
\* data row 2026-02-15,1200.50,INR,Salary Credit, through extractUpload,
\* normalizeExtractedRecords and deriveNormalizedTransactionsFromRows with
\* default currency INR, yields exactly one candidate with occurredAt
\* "2026-02-15", amount "1200.500000", currency "INR" and description
\* "Salary Credit", the description keeping its letter case.
C4_ExampleKeepsDescriptionCase ==
  ExampleDone =>
    /\ Len(ret.value) = 1
    /\ ret.value[1].row.occurredAt = Txt_2026_02_15
    /\ ret.value[1].row.amount = Txt_1200_500000
    /\ ret.value[1].row.currency = Txt_INR
    /\ ret.value[1].row.description = Txt_Salary_Credit

\* C4 witness: the example CSV gave one candidate whose description is
\* "Salary Credit".
C4_Witness_ExampleDerived ==
  /\ ExampleDone
  /\ Len(ret.value) = 1
  /\ ret.value[1].row.description = Txt_Salary_Credit

(***************************************************************************)
(* Uploads, runs and storage.  handleUpload creates a queued run, stores   *)
(* the bytes and the upload, then parses inline or enqueues a job that a   *)
(* worker parses; every awaited call is one step, and an awaited call of   *)
(* the blob store, the database or the queue may be rejected.              *)
(***************************************************************************)
\* The files uploaded: a CSV of three rows, two of them equal and the
\* third without a description, and a JSON file.
Files ==
  [rows |-> [fileBuffer |-> CsvDocument(<<"a", "m", "o", "u", "n", "t", ",", "m", "e", "m", "o">>,
                                        <<<<"5", ",", "x">>, <<"5", ",", "x">>, <<"7", ",">>>>),
             mimeType |-> Txt_text_csv,
             originalFilename |-> <<"a", ".", "c", "s", "v">>],
   json |-> [fileBuffer |-> <<"{", "}">>,
             mimeType |-> Txt_application_json,
             originalFilename |-> <<"b", ".", "j", "s", "o", "n">>]]

\* The active sources and the source system resolveSourceSystem gives each.
SourceSystems == [manual |-> "manual_upload:manual_upload", bank |-> "bank:statements"]

resolveSourceSystem(sourceId) == SourceSystems[sourceId]

\* attempts: 3 of the parse job
JOB_ATTEMPTS == 3

NoStats == [t |-> "external_id"]

Conflicts_Never(table, row, uniqueColumns) == FALSE

\* The row collides with a stored row on the columns of a unique index.
Conflicts(table, row, uniqueColumns) ==
  \E stored \in table : \A c \in uniqueColumns : stored[c] = row[c]

\* prisma.<model>.createMany({ data, skipDuplicates: true }): INSERT ... ON
\* CONFLICT DO NOTHING, each inserted row given the next id.
RECURSIVE createMany(_, _, _)
createMany(table, data, uniqueColumns) ==
  IF data = <<>> THEN table
  ELSE createMany(
         IF Conflicts(table, Head(data), uniqueColumns) THEN table
         ELSE table \cup {[Head(data) EXCEPT !.id = Cardinality(table) + 1]},
         Tail(data), uniqueColumns)

RawRowUnique == {"sourceSystem", "rowSha256"}

NormalizedTransactionUnique == {"sourceSystem", "rowSha256", "normalizationVersion"}

duplicateCount_Inserted(totalCount, insertedCount) == insertedCount

duplicateCount(totalCount, insertedCount) == totalCount - insertedCount

\* What processInline and processUploadJob compute from the file before
\* and after the raw-row insert: extractUpload, normalizeExtractedRecords
\* and deriveNormalizedTransactionsFromRows under version v1 and the default
\* currency INR; an extraction that throws ends it.
ParseUpload(file) ==
  LET extracted == extractUpload(file.fileBuffer, file.mimeType, file.originalFilename)
  IN  IF extracted.t = "threw" THEN extracted
      ELSE LET normalized == normalizeExtractedRecords(extracted.value, Null)
           IN  Returned([records |-> normalized.records,
                         normalizedCandidates |->
                           deriveNormalizedTransactionsFromRows(
                             normalized.records,
                             [normalizationVersion |-> Txt_v1, defaultCurrency |-> Txt_INR],
                             Null)])

Parsed == [name \in DOMAIN Files |-> ParseUpload(Files[name])]

\* The tables and the queue are empty. The pure pipeline depends on the
\* uploaded bytes alone, so its result on each file is computed once and
\* carried in call, where every run of that file reads it.
InitStore ==
  /\ EmptyStore
  /\ call = [fn |-> "handleUpload", parsed |-> Parsed]
  /\ ret = JsPending

\* handleUpload up to createQueuedSyncRun: the source is resolved and the
\* run is created queued.
HandleUpload(file, sourceId, parseMode) ==
  /\ Len(syncRuns) < MaxRuns
  /\ syncRuns' = Append(syncRuns, [status |-> "queued", createdAt |-> clock, finishedAt |-> -1,
                                   stats |-> NoStats])
  /\ procs' = Append(procs, [pc |-> "uploadObjectBytes", file |-> file, sourceId |-> sourceId,
                             sourceSystem |-> resolveSourceSystem(sourceId),
                             parseMode |-> parseMode, response |-> "none",
                             inserts |-> <<>>, normalizedInserts |-> <<>>,
                             totalCount |-> 0, insertedCount |-> 0,
                             normalizedInsertedCount |-> 0])
  /\ jobs' = Append(jobs, [state |-> "none", attemptsMade |-> 0])
  /\ UNCHANGED <<call, ret, sources, rawRows, normalizedTransactions, clock, failures>>

\* await uploadObjectBytes(objectKey, file.buffer, rawMimeType)
UploadObjectBytes(r) ==
  /\ procs[r].pc = "uploadObjectBytes"
  /\ procs' = [procs EXCEPT ![r].pc = "createRawUpload"]
  /\ UNCHANGED <<call, ret, sources, syncRuns, rawRows, normalizedTransactions, jobs, clock, failures>>

\* await createRawUpload(...), then the choice of inline parsing
CreateRawUpload(r) ==
  /\ procs[r].pc = "createRawUpload"
  /\ procs' = [procs EXCEPT ![r].pc = IF procs[r].parseMode = "inline"
                                      THEN "markSyncRunRunning" ELSE "queueAdd"]
  /\ UNCHANGED <<call, ret, sources, syncRuns, rawRows, normalizedTransactions, jobs, clock, failures>>

\* await this.queue.add("parse-upload", jobData, { attempts: 3, ... }) and
\* the response with status queued
QueueAdd(r) ==
  /\ procs[r].pc = "queueAdd"
  /\ jobs' = [jobs EXCEPT ![r].state = "waiting"]
  /\ procs' = [procs EXCEPT ![r].pc = "job", ![r].response = "queued"]
  /\ UNCHANGED <<call, ret, sources, syncRuns, rawRows, normalizedTransactions, clock, failures>>

\* The awaited call is rejected and no catch block marks the run: the
\* request ends with the error.
AwaitRejected_Uncaught(r) ==
  /\ failures < MaxFailures
  /\ procs[r].pc \in {"uploadObjectBytes", "createRawUpload", "queueAdd", "downloadObjectBytes",
                      "insertRawRows", "insertNormalizedTransactions", "markSyncRunCompleted"}
  /\ failures' = failures + 1
  /\ procs' = [procs EXCEPT ![r].pc = "threw", ![r].response = "500"]
  /\ UNCHANGED <<call, ret, sources, syncRuns, rawRows, normalizedTransactions, jobs, clock>>

\* The awaited call the process stands at is rejected: control goes to
\* the catch block around it.
AwaitRejected(r) ==
  /\ failures < MaxFailures
  /\ procs[r].pc \in {"uploadObjectBytes", "createRawUpload", "queueAdd", "downloadObjectBytes",
                      "insertRawRows", "insertNormalizedTransactions", "markSyncRunCompleted"}
  /\ failures' = failures + 1
  /\ procs' = [procs EXCEPT ![r].pc =
                 IF procs[r].pc \in {"uploadObjectBytes", "createRawUpload", "queueAdd"}
                 THEN "markSyncRunFailedInHandleUpload" ELSE "markSyncRunFailed"]
  /\ UNCHANGED <<call, ret, sources, syncRuns, rawRows, normalizedTransactions, jobs, clock>>

\* await markSyncRunFailed(syncRun.id, error) in a catch block of
\* handleUpload, then the 500 response
MarkSyncRunFailedInHandleUpload(r) ==
  /\ procs[r].pc = "markSyncRunFailedInHandleUpload"
  /\ syncRuns' = [syncRuns EXCEPT ![r].status = "failed", ![r].finishedAt = clock]
  /\ clock' = clock + 1
  /\ procs' = [procs EXCEPT ![r].pc = "threw", ![r].response = "500"]
  /\ UNCHANGED <<call, ret, sources, rawRows, normalizedTransactions, jobs, failures>>

\* The worker takes a waiting job and calls processUploadJob.
WorkerTakesJob(r) ==
  /\ procs[r].pc = "job"
  /\ jobs[r].state = "waiting"
  /\ jobs' = [jobs EXCEPT ![r].state = "active", ![r].attemptsMade = @ + 1]
  /\ procs' = [procs EXCEPT ![r].pc = "markSyncRunRunning"]
  /\ UNCHANGED <<call, ret, sources, syncRuns, rawRows, normalizedTransactions, clock, failures>>

\* await markSyncRunRunning(syncRunId)
MarkSyncRunRunning(r) ==
  /\ procs[r].pc = "markSyncRunRunning"
  /\ syncRuns' = [syncRuns EXCEPT ![r].status = "running"]
  /\ procs' = [procs EXCEPT ![r].pc = IF procs[r].parseMode = "inline"
                                      THEN "insertRawRows" ELSE "downloadObjectBytes"]
  /\ UNCHANGED <<call, ret, sources, rawRows, normalizedTransactions, jobs, clock, failures>>

\* await downloadObjectBytes(job.objectKey)
DownloadObjectBytes(r) ==
  /\ procs[r].pc = "downloadObjectBytes"
  /\ procs' = [procs EXCEPT ![r].pc = "insertRawRows"]
  /\ UNCHANGED <<call, ret, sources, syncRuns, rawRows, normalizedTransactions, jobs, clock, failures>>

\* extractUpload and normalizeExtractedRecords, then await
\* insertRawRows(inserts); an extraction that throws goes to the catch block.
InsertRawRows(r) ==
  /\ procs[r].pc = "insertRawRows"
  /\ LET parsed == call.parsed[procs[r].file]
     IN  IF parsed.t = "threw"
         THEN /\ procs' = [procs EXCEPT ![r].pc = "markSyncRunFailed"]
              /\ UNCHANGED rawRows
         ELSE LET inserts ==
                    [i \in DOMAIN parsed.value.records |->
                       [id |-> 0, uploadId |-> r, sourceSystem |-> procs[r].sourceSystem,
                        rowIndex |-> parsed.value.records[i].rowIndex,
                        rowSha256 |-> parsed.value.records[i].rowSha256]]
                  stored == createMany(rawRows, inserts, RawRowUnique)
              IN  /\ rawRows' = stored
                  /\ procs' = [procs EXCEPT
                       ![r].pc = "insertNormalizedTransactions",
                       ![r].inserts = inserts,
                       ![r].normalizedInserts =
                         [i \in DOMAIN parsed.value.normalizedCandidates |->
                            [id |-> 0, sourceSystem |-> procs[r].sourceSystem,
                             rowSha256 |-> parsed.value.normalizedCandidates[i].rowSha256,
                             normalizationVersion |->
                               parsed.value.normalizedCandidates[i].normalizationVersion]],
                       ![r].totalCount = Len(inserts),
                       ![r].insertedCount = Cardinality(stored) - Cardinality(rawRows)]
  /\ UNCHANGED <<call, ret, sources, syncRuns, normalizedTransactions, jobs, clock, failures>>

\* insertNormalizedTransactions only for a run that inserted raw rows.
InsertNormalizedTransactions_OnlyWhenInserted(r) ==
  /\ procs[r].pc = "insertNormalizedTransactions"
  /\ LET stored ==
           IF procs[r].insertedCount = 0 THEN normalizedTransactions
           ELSE createMany(normalizedTransactions, procs[r].normalizedInserts,
                           NormalizedTransactionUnique)
     IN  /\ normalizedTransactions' = stored
         /\ procs' = [procs EXCEPT
              ![r].pc = "markSyncRunCompleted",
              ![r].normalizedInsertedCount =
                Cardinality(stored) - Cardinality(normalizedTransactions)]
  /\ UNCHANGED <<call, ret, sources, syncRuns, rawRows, jobs, clock, failures>>

\* await insertNormalizedTransactions(normalizedInserts)
InsertNormalizedTransactions(r) ==
  /\ procs[r].pc = "insertNormalizedTransactions"
  /\ LET stored ==
           createMany(normalizedTransactions, procs[r].normalizedInserts,
                      NormalizedTransactionUnique)
     IN  /\ normalizedTransactions' = stored
         /\ procs' = [procs EXCEPT
              ![r].pc = "markSyncRunCompleted",
              ![r].normalizedInsertedCount =
                Cardinality(stored) - Cardinality(normalizedTransactions)]
  /\ UNCHANGED <<call, ret, sources, syncRuns, rawRows, jobs, clock, failures>>

\* await markSyncRunCompleted(syncRunId, stats); inline, the response with
\* status succeeded; in the worker, the job completes.
MarkSyncRunCompleted(r) ==
  /\ procs[r].pc = "markSyncRunCompleted"
  /\ syncRuns' = [syncRuns EXCEPT
       ![r].status = "succeeded",
       ![r].finishedAt = clock,
       ![r].stats =
         [t |-> "parse",
          total_records |-> procs[r].totalCount,
          inserted_records |-> procs[r].insertedCount,
          duplicate_records |-> duplicateCount(procs[r].totalCount, procs[r].insertedCount),
          normalized_candidate_records |-> Len(procs[r].normalizedInserts),
          normalized_inserted_records |-> procs[r].normalizedInsertedCount,
          parse_mode |-> procs[r].parseMode]]
  /\ clock' = clock + 1
  /\ procs' = [procs EXCEPT ![r].pc = "done",
                            ![r].response = IF procs[r].parseMode = "inline"
                                            THEN "succeeded" ELSE @]
  /\ jobs' = [jobs EXCEPT ![r].state = IF procs[r].parseMode = "inline" THEN @ ELSE "completed"]
  /\ UNCHANGED <<call, ret, sources, rawRows, normalizedTransactions, failures>>

\* await markSyncRunFailed(syncRunId, error) in the catch block of
\* processInline or processUploadJob; inline, the 500 response; in the
\* worker the error is thrown on and the queue retries the job until it
\* has made its attempts.
MarkSyncRunFailed(r) ==
  /\ procs[r].pc = "markSyncRunFailed"
  /\ syncRuns' = [syncRuns EXCEPT ![r].status = "failed", ![r].finishedAt = clock]
  /\ clock' = clock + 1
  /\ IF procs[r].parseMode = "inline"
     THEN /\ procs' = [procs EXCEPT ![r].pc = "threw", ![r].response = "500"]
          /\ UNCHANGED jobs
     ELSE IF jobs[r].attemptsMade < JOB_ATTEMPTS
     THEN /\ procs' = [procs EXCEPT ![r].pc = "job"]
          /\ jobs' = [jobs EXCEPT ![r].state = "waiting"]
     ELSE /\ procs' = [procs EXCEPT ![r].pc = "jobFailed"]
          /\ jobs' = [jobs EXCEPT ![r].state = "failed"]
  /\ UNCHANGED <<call, ret, sources, rawRows, normalizedTransactions, failures>>

Next ==
  \/ \E file \in DOMAIN Files, sourceId \in DOMAIN SourceSystems,
        parseMode \in {"inline", "queued"} : HandleUpload(file, sourceId, parseMode)
  \/ \E r \in DOMAIN procs : UploadObjectBytes(r)
  \/ \E r \in DOMAIN procs : CreateRawUpload(r)
  \/ \E r \in DOMAIN procs : QueueAdd(r)
  \/ \E r \in DOMAIN procs : AwaitRejected(r)
  \/ \E r \in DOMAIN procs : MarkSyncRunFailedInHandleUpload(r)
  \/ \E r \in DOMAIN procs : WorkerTakesJob(r)
  \/ \E r \in DOMAIN procs : MarkSyncRunRunning(r)
  \/ \E r \in DOMAIN procs : DownloadObjectBytes(r)
  \/ \E r \in DOMAIN procs : InsertRawRows(r)
  \/ \E r \in DOMAIN procs : InsertNormalizedTransactions(r)
  \/ \E r \in DOMAIN procs : MarkSyncRunCompleted(r)
  \/ \E r \in DOMAIN procs : MarkSyncRunFailed(r)

Spec == InitStore /\ [][Next]_vars

(***************************************************************************)
(* Runs of one document under one source system.                           *)
(***************************************************************************)
Runs == DOMAIN syncRuns

SameDocument(a, b) ==
  procs[a].file = procs[b].file /\ procs[a].sourceSystem = procs[b].sourceSystem

\* Run a had succeeded before run b was created.
InSequence(a, b) ==
  /\ a # b
  /\ SameDocument(a, b)
  /\ syncRuns[a].status = "succeeded"
  /\ syncRuns[a].finishedAt < syncRuns[b].createdAt

RowHashes(r) == {procs[r].inserts[i].rowSha256 : i \in DOMAIN procs[r].inserts}

\* The process is past its raw-row insert, past its normalized insert.
PastRawInsert(r) ==
  procs[r].pc \in {"insertNormalizedTransactions", "markSyncRunCompleted", "done"}

PastNormalizedInsert(r) == procs[r].pc \in {"markSyncRunCompleted", "done"}

\* C2: when the same document is ingested twice in sequence under one
\* source system, both runs compute the same rowSha256 values, the second
\* run inserts no raw row and no normalized transaction, and it reports
\* duplicate_records equal to total_records.
C2_SecondRunInsertsNothing ==
  \A a, b \in Runs :
    InSequence(a, b) =>
      /\ (PastRawInsert(b) =>
            /\ procs[b].insertedCount = 0
            /\ [i \in DOMAIN procs[b].inserts |-> procs[b].inserts[i].rowSha256] =
                 [i \in DOMAIN procs[a].inserts |-> procs[a].inserts[i].rowSha256])
      /\ (PastNormalizedInsert(b) => procs[b].normalizedInsertedCount = 0)
      /\ (syncRuns[b].status = "succeeded" =>
            /\ syncRuns[b].stats.inserted_records = 0
            /\ syncRuns[b].stats.normalized_inserted_records = 0
            /\ syncRuns[b].stats.duplicate_records = syncRuns[b].stats.total_records
            /\ syncRuns[b].stats.total_records = syncRuns[a].stats.total_records)

\* C2 witness: a run of the three-row CSV succeeded after an earlier run of
\* it had succeeded, and its three records were all duplicates.
C2_Witness_SecondRunAllDuplicates ==
  \E a, b \in Runs :
    /\ InSequence(a, b)
    /\ syncRuns[b].status = "succeeded"
    /\ syncRuns[a].stats.inserted_records = 2
    /\ syncRuns[b].stats.total_records = 3
    /\ syncRuns[b].stats.duplicate_records = 3

RECURSIVE SumOver(_, _)
SumOver(S, f) ==
  IF S = {} THEN 0 ELSE LET x == CHOOSE x \in S : TRUE IN f[x] + SumOver(S \ {x}, f)

\* inserted_records as the run's stats report it, 0 while they report none.
InsertedRecords(r) ==
  IF syncRuns[r].stats.t = "parse" THEN syncRuns[r].stats.inserted_records ELSE 0

RunsOf(file, sourceSystem) ==
  {r \in Runs : procs[r].file = file /\ procs[r].sourceSystem = sourceSystem}

InsertedSum(file, sourceSystem) ==
  SumOver(RunsOf(file, sourceSystem), [r \in Runs |-> InsertedRecords(r)])

DistinctHashes(file, sourceSystem) ==
  Cardinality(UNION {RowHashes(r) : r \in RunsOf(file, sourceSystem)})

NoTwoRowsOfOneKey ==
  /\ \A x, y \in rawRows :
       x.sourceSystem = y.sourceSystem /\ x.rowSha256 = y.rowSha256 => x = y
  /\ \A x, y \in normalizedTransactions :
       /\ x.sourceSystem = y.sourceSystem
       /\ x.rowSha256 = y.rowSha256
       /\ x.normalizationVersion = y.normalizationVersion
       => x = y

Finished(r) == procs[r].pc \in {"done", "threw", "jobFailed"}

Txt_Rupee == <<"U+20B9">>
Txt_Dollar == <<"$">>
Txt_Euro == <<"U+20AC">>
Txt_Pound == <<"U+00A3">>
Txt_usd_Spaced == <<" ", "u", "s", "d", " ">>
Txt_XY == <<"X", "Y">>
Txt_USDollar == <<"U", "S", "$">>
Txt_ThreeDollars == <<"$", "$", "$">>

CurrencyTexts ==
  {Txt_Rupee, Txt_Dollar, Txt_Euro, Txt_Pound, Txt_usd_Spaced, Txt_XY,
   Txt_USDollar, Txt_ThreeDollars, <<"U+FF04">>, <<"e", "u", "r", "o">>,
   <<"U", "S", "-", "D">>, <<" ">>}

CurrencyRawRows ==
  {a \o c \o d :
     a \in {<<<<K_amount, JsStr(<<"5">>)>>>>, <<<<K_amount, JsStr(Txt_abc)>>>>},
     c \in {<<>>} \cup {<<<<K_currency, JsStr(t)>>>> : t \in CurrencyTexts}
             \cup {<<<<K_currency, JsStr(Txt_XY)>>, <<K_ccy, JsStr(Txt_USD)>>>>,
                   <<<<K_currency, JsNull>>, <<K_curr, JsStr(Txt_Euro)>>>>},
     d \in {<<>>, <<<<K_memo, JsStr(<<"x">>)>>>>}}

CurrencyDefaults ==
  {Null, Txt_INR, <<"i", "n", "r">>, Txt_XY, Txt_Dollar, Txt_USDollar, <<>>}

InitCurrency ==
  /\ call \in {[fn |-> "deriveNormalizedTransactionsFromRows",
                rows |-> RecordsOf(<<r>>),
                options |-> [normalizationVersion |-> Null, defaultCurrency |-> c],
                host |-> Null] :
                 r \in CurrencyRawRows, c \in CurrencyDefaults}
  /\ ret = JsPending
  /\ EmptyStore

SpecCurrency == InitCurrency /\ [][NextDerive]_vars

\* The text of the row's currency column, Null when the row has none.
RowCurrencyText(rawJson) ==
  LET value == ColumnValue(rawJson, K_currency)
  IN  IF value.t = "string" THEN value.v ELSE Null

\* The codes the examples name: a symbol gives its code, " usd " gives USD.
ExampleCodes ==
  {<<Txt_Rupee, Txt_INR>>, <<Txt_Dollar, Txt_USD>>, <<Txt_Euro, Txt_EUR>>,
   <<Txt_Pound, Txt_GBP>>, <<Txt_usd_Spaced, Txt_USD>>}

\* The defaults under test that are a code or stand for one, with the code.
ValidDefaults ==
  {<<Txt_INR, Txt_INR>>, <<<<"i", "n", "r">>, Txt_INR>>, <<Txt_Dollar, Txt_USD>>}

\* The defaults under test that are no currency: none, two letters, empty.
InvalidDefaults == {Null, Txt_XY, <<>>}

\* The row has what a candidate needs besides the currency.
AmountAndDescription(rawJson) == FirstAmountParses(rawJson) /\ HasDescription(rawJson)

\* C11: on a row with an amount and a description, a currency column
\* holding a currency symbol or " usd " gives the candidate the symbol's
\* code (INR, USD, EUR, GBP) or USD; "XY" is rejected; a row whose currency
\* is absent or rejected gets the caller's default currency, and gives no
\* candidate when the default is no valid currency either.
C11_CurrencyExamplesAndDefault ==
  (DeriveDone /\ Len(call.rows) = 1 /\ AmountAndDescription(call.rows[1].rawJson)) =>
    LET rawJson == call.rows[1].rawJson
        text == RowCurrencyText(rawJson)
        default == call.options.defaultCurrency
        rejected == normalizeCurrencyCode(RoleText(rawJson, NORMALIZED_CURRENCY_KEYS)) = Null
    IN  /\ \A e \in ExampleCodes :
             text = e[1] => Len(ret.value) = 1 /\ ret.value[1].currency = e[2]
        /\ text = Txt_XY => rejected
        /\ text = Null /\ ColumnValue(rawJson, K_curr) = JsUndefined => rejected
        /\ rejected =>
             /\ \A d \in ValidDefaults :
                  default = d[1] => Len(ret.value) = 1 /\ ret.value[1].currency = d[2]
             /\ default \in InvalidDefaults => ret.value = <<>>
        /\ ~rejected => Len(ret.value) = 1

\* C11 witness: a row whose currency is the rejected "XY" took the default
\* given as "inr" and its candidate carries INR.
C11_Witness_RejectedTakesDefault ==
  /\ DeriveDone
  /\ Len(call.rows) = 1
  /\ RowCurrencyText(call.rows[1].rawJson) = Txt_XY
  /\ ColumnValue(call.rows[1].rawJson, K_ccy) = JsUndefined
  /\ call.options.defaultCurrency = <<"i", "n", "r">>
  /\ Len(ret.value) = 1
  /\ ret.value[1].currency = Txt_INR

\* C12 as stated: the currency of every emitted candidate is a 3-letter
\* code, three characters A-Z, for every row currency and every default.
C12_Original_ThreeLetterCode ==
  DeriveDone =>
    \A i \in DOMAIN ret.value :
      /\ Len(ret.value[i].currency) = 3
      /\ \A k \in DOMAIN ret.value[i].currency :
           ret.value[i].currency[k] \in Range(UpperChars)

(***************************************************************************)
(* The amount of a candidate.                                              *)
(***************************************************************************)
\* The value of the first candidate key the row holds present and non-null.
FirstPresentValue(rawJson, candidateKeys) ==
  LET hits == {k \in DOMAIN candidateKeys :
                 ColumnValue(rawJson, candidateKeys[k]) \notin {JsUndefined, JsNull}}
  IN  IF hits = {} THEN JsUndefined
      ELSE ColumnValue(rawJson, candidateKeys[CHOOSE k \in hits : \A j \in hits : k <= j])

\* The decimal of the first present, non-null amount value; Null without one.
AmountOfFirstPresent(rawJson) ==
  LET flat == normalizeFlatString(FirstPresentValue(rawJson, NORMALIZED_AMOUNT_KEYS))
  IN  IF flat = Null THEN Null ELSE normalizeDecimalString(flat)

\* The decimal of the first amount value that flattens to a non-empty text.
AmountOfFirstNonEmpty(rawJson) ==
  LET flat == RoleText(rawJson, NORMALIZED_AMOUNT_KEYS)
  IN  IF flat = Null THEN Null ELSE normalizeDecimalString(flat)

Amounts(candidates) == [i \in DOMAIN candidates |-> candidates[i].amount]

\* C13 as stated: the amount is taken from the first amount key whose value
\* is present and non-null; when that value is no decimal, the empty string
\* included, the row gives no candidate and no later key is consulted.
C13_Original_FirstPresentNonNull ==
  DeriveDone =>
    LET emitted == SelectSeq(call.rows,
                     LAMBDA row : /\ AmountOfFirstPresent(row.rawJson) # Null
                                  /\ HasCurrency(row.rawJson, call.options.defaultCurrency)
                                  /\ HasDescription(row.rawJson))
    IN  /\ Hashes(ret.value) = Hashes(emitted)
        /\ Amounts(ret.value) =
             [i \in DOMAIN emitted |-> AmountOfFirstPresent(emitted[i].rawJson)]

\* C13: the amount is taken from the first key, in the order amount, amt,
\* debit, credit, value, total, transaction_amount, whose value flattens to
\* a non-empty text (a null, an empty or blank string, an object are passed
\* over); when that text is no decimal the row gives no candidate and no
\* later key is consulted; otherwise the candidate's amount is its decimal.
C13_AmountFromFirstNonEmptyKey ==
  DeriveDone =>
    LET emitted == SelectSeq(call.rows,
                     LAMBDA row : /\ AmountOfFirstNonEmpty(row.rawJson) # Null
                                  /\ HasCurrency(row.rawJson, call.options.defaultCurrency)
                                  /\ HasDescription(row.rawJson))
    IN  /\ Hashes(ret.value) = Hashes(emitted)
        /\ Amounts(ret.value) =
             [i \in DOMAIN emitted |-> AmountOfFirstNonEmpty(emitted[i].rawJson)]

\* C13 witness: a row whose amount column is the empty string and whose
\* debit is "(5)" gave a candidate with the debit's amount.
C13_Witness_EmptyAmountPassedOver ==
  /\ DeriveDone
  /\ Len(call.rows) = 1
  /\ ColumnValue(call.rows[1].rawJson, K_amount) = JsStr(<<>>)
  /\ ColumnValue(call.rows[1].rawJson, K_debit) = JsStr(<<"(", "5", ")">>)
  /\ Len(ret.value) = 1
  /\ ret.value[1].amount = <<"-", "5", ".", "0", "0", "0", "0", "0", "0">>

(***************************************************************************)
(* Canonicalizing a canonical row again: one-column rows over a key of     *)
(* each role and every short text, the documented examples, numbers,       *)
(* booleans, null and nested values, and some rows of several columns. The *)
(* values are JSON values, as rawJson is stored.                           *)
(***************************************************************************)
CanonAlphabet == {"1", "9", ".", "-", "/", " ", "A", "U+FF11"}

CanonKeys == {K_date, K_Posted_At, K_Amount, K_fee, K_description, K_memo, <<"Z">>}

Txt_March_5 == <<"M", "a", "r", "c", "h", " ", "5">>

CanonTexts ==
  SeqsUpTo(CanonAlphabet, MaxDateLen)
    \cup {Txt_3_5_26, Txt_3_5_70, Txt_2026_02_30, Txt_2026_02_15, Txt_Instant, Txt_March_5,
          <<" ">> \o Txt_3_5_70 \o <<"U+00A0">>, <<"1", "/", "2", "/", "1", "2", "3">>,
          Txt_Dollar_1_234_505, Txt_Paren_99_99, Txt_10_1234565, Txt_SalaryCredit,
          <<"-", "0", ".", "0", "0", "0", "0", "0", "0", "4">>, Txt_NaN, <<"t", "r", "u", "e">>}

\* String(value) of the native numbers under test.
NumberTexts ==
  {<<"0">>, <<"1", ".", "5">>, <<"-", "1", "2">>, <<"1", "2", "0", "0", ".", "5">>,
   <<"0", ".", "0", "0", "0", "0", "0", "1">>, <<"1", "e", "-", "7">>,
   <<"1", "e", "+", "2", "1">>, <<"2", "0", "2", "6">>}

CanonValues ==
  {JsStr(t) : t \in CanonTexts} \cup {JsNum(n) : n \in NumberTexts}
    \cup {JsNull, JsBool(TRUE), JsBool(FALSE),
          JsArr(<<JsStr(<<" ", "A">>), JsNum(<<"1", ".", "5">>), JsNull>>),
          JsObj(<<<<K_memo, JsStr(<<"B", " ", " ", "A">>)>>,
                  <<K_Amount, JsNum(<<"1", ".", "5">>)>>,
                  <<K_date, JsStr(Txt_3_5_26)>>>>)}

CanonRows ==
  {<<<<k, v>>>> : k \in CanonKeys, v \in CanonValues}
    \cup {<<<<K_memo, JsStr(Txt_SalaryCredit)>>, <<K_date, d>>, <<K_Amount, a>>>> :
            d \in {JsStr(Txt_3_5_26), JsStr(Txt_March_5), JsNull},
            a \in {JsStr(Txt_Paren_99_99), JsNum(<<"1", ".", "5">>), JsStr(<<"A">>)}}

InitCanon ==
  /\ call \in {[fn |-> "canonicalizeRowValue", rawJson |-> r, host |-> h] :
                 r \in CanonRows, h \in HostParseAnswers}
  /\ ret = JsPending
  /\ EmptyStore

\* canonicalizeRowValue(record.rawJson) with its hash, as
\* normalizeExtractedRecords computes them.
CallCanonicalizeRowValue ==
  /\ call.fn = "canonicalizeRowValue"
  /\ ret = JsPending
  /\ LET canonical == canonicalizeRowValue(JsObj(call.rawJson), Null, call.host)
     IN  ret' = [t |-> "canonical", value |-> canonical,
                 rowSha256 |-> hashSha256(stableSerialize(canonical))]
  /\ UNCHANGED <<call, storeVars>>

\* The canonical row taken as a fresh rawJson and canonicalized again.
CallCanonicalizeRowValueAgain ==
  /\ call.fn = "canonicalizeRowValue"
  /\ ret.t = "canonical"
  /\ LET canonical == canonicalizeRowValue(ret.value, Null, call.host)
     IN  ret' = [t |-> "again", first |-> ret.value, firstSha256 |-> ret.rowSha256,
                 value |-> canonical,
                 rowSha256 |-> hashSha256(stableSerialize(canonical))]
  /\ UNCHANGED <<call, storeVars>>

NextCanon == CallCanonicalizeRowValue \/ CallCanonicalizeRowValueAgain

SpecCanon == InitCanon /\ [][NextCanon]_vars

NumberForms ==
  {<<<<"1", ".", "5">>, <<"1", ".", "5">>>>,
   <<<<"-", "1", "2">>, <<"-", "1", "2">>>>,
   <<<<"1", "e", "-", "7">>, <<"0", ".", "0", "0", "0", "0", "0", "0", "1">>>>}

Txt_QuotedPair == <<"1", "\"", ",", "\"", "a", "\"", ":", "\"", "2">>

PairRows ==
  {<<<<K_Amount, JsNum(f[1])>>>> : f \in NumberForms}
    \cup {<<<<K_Amount, JsStr(f[2])>>>> : f \in NumberForms}
    \cup {<<<<K_Amount, JsStr(t)>>>> :
            t \in {<<"1", ".", "5", "0">>, <<" ", "$", "1", ".", "5", " ">>, <<"(", "1", "2", ")">>,
                   <<"1", "e", "-", "7">>}}
    \cup {<<<<K_fee, JsNum(<<"1", ".", "5">>)>>>>, <<<<K_fee, JsStr(<<"1", ".", "5">>)>>>>}
    \cup {<<<<<<"Z">>, v>>>> :
            v \in {JsNum(<<"1", ".", "5">>), JsStr(<<"1", ".", "5">>), JsNull,
                   JsStr(<<"n", "u", "l", "l">>), JsBool(TRUE), JsStr(<<"t", "r", "u", "e">>),
                   JsStr(Txt_QuotedPair), JsArr(<<>>), JsArr(<<JsNull>>), JsObj(<<>>)}}
    \cup {<<<<<<"Z">>, JsStr(<<"1">>)>>, <<<<"a">>, JsStr(<<"2">>)>>>>,
          <<<<<<"a">>, JsStr(<<"2">>)>>, <<<<"Z">>, JsStr(<<"1">>)>>>>,
          <<<<K_date, JsStr(Txt_3_5_26)>>>>, <<<<K_date, JsStr(Txt_2026_03_05)>>>>,
          <<<<K_date, JsStr(Txt_3_5_70)>>>>, <<>>}

IndexSchemes == {"document", "offset", "reversed"}

RowIndexOf(scheme, position, length) ==
  CASE scheme = "document" -> position - 1
    [] scheme = "offset" -> position + 4
    [] scheme = "reversed" -> length - position

InitPair ==
  /\ call \in {[fn |-> "normalizeExtractedRecords",
                extracted |-> [rawMimeType |-> Txt_text_csv,
                               records |-> [k \in DOMAIN b |->
                                              [rawJson |-> b[k],
                                               rowIndex |-> RowIndexOf(s, k, Len(b))]]],
                host |-> Null] :
                 b \in SeqsUpTo(PairRows, MaxRows), s \in IndexSchemes}
  /\ ret = JsPending
  /\ EmptyStore

SpecPair == InitPair /\ [][NextRow]_vars

\* Row b is row a with its one numeric-role field, a native number in a,
\* written as a decimal text of the same value in b.
NumberAsText(a, b) ==
  \E f \in NumberForms :
    /\ Len(a) = 1 /\ Len(b) = 1
    /\ a[1][1] = b[1][1]
    /\ isNumericFieldKey(a[1][1])
    /\ a[1][2] = JsNum(f[1])
    /\ b[1][2].t = "string"
    /\ normalizeDecimalString(b[1][2].v) # Null
    /\ normalizeDecimalString(b[1][2].v) = normalizeDecimalString(f[2])

\* C15 as stated: a numeric-role field holding a finite native number is
\* canonicalized to the fixed-scale decimal string of the equivalent text,
\* so a row with the number and a row with a decimal text of the same value
\* have the same rowSha256.
C15_Original_NumberHashesAsItsText ==
  NormalizeExtractedRecordsDone =>
    \A i, j \in DOMAIN ret.value.records :
      NumberAsText(ret.value.records[i].rawJson, ret.value.records[j].rawJson) =>
        ret.value.records[i].rowSha256 = ret.value.records[j].rowSha256

\* The canonical structure of a row, as normalizeExtractedRecords builds it.
CanonicalRow(rawJson) == canonicalizeRowValue(JsObj(rawJson), Null, call.host)

\* C16: two rows whose canonicalized structures differ (another key set,
\* another normalized date or decimal, any other canonical value) have
\* different stable serializations, hence different rowSha256 with SHA-256
\* taken as collision-free.
C16_DifferentCanonicalRowsDifferentHash ==
  NormalizeExtractedRecordsDone =>
    \A i, j \in DOMAIN ret.value.records :
      CanonicalRow(ret.value.records[i].rawJson) # CanonicalRow(ret.value.records[j].rawJson)
        => ret.value.records[i].rowSha256 # ret.value.records[j].rowSha256

\* C16 witness: the row {Z: "1", a: "2"} and the row whose one text holds
\* the quotes, comma and colon that would spell the same serialization
\* were hashed apart.
C16_Witness_PunctuationKeptApart ==
  /\ NormalizeExtractedRecordsDone
  /\ Len(ret.value.records) = 2
  /\ ret.value.records[1].rawJson = <<<<<<"Z">>, JsStr(Txt_QuotedPair)>>>>
  /\ ret.value.records[2].rawJson = <<<<<<"Z">>, JsStr(<<"1">>)>>, <<<<"a">>, JsStr(<<"2">>)>>>>
  /\ ret.value.records[1].rowSha256 # ret.value.records[2].rowSha256

\* C17: normalizeExtractedRecords returns one record per input record in
\* the same order with rawJson and rowIndex unchanged, and two records with
\* equal rawJson get the same rowSha256 whatever their rowIndex.
C17_RecordsKeptHashIgnoresRowIndex ==
  NormalizeExtractedRecordsDone =>
    /\ Len(ret.value.records) = Len(call.extracted.records)
    /\ \A i \in DOMAIN ret.value.records :
         /\ ret.value.records[i].rawJson = call.extracted.records[i].rawJson
         /\ ret.value.records[i].rowIndex = call.extracted.records[i].rowIndex
    /\ \A i, j \in DOMAIN ret.value.records :
         ret.value.records[i].rawJson = ret.value.records[j].rawJson
           => ret.value.records[i].rowSha256 = ret.value.records[j].rowSha256

\* C17 witness: one row given twice, at rowIndex 5 and 6, came back in
\* order with both indexes kept and one rowSha256.
C17_Witness_SameRowTwoIndexes ==
  /\ NormalizeExtractedRecordsDone
  /\ Len(ret.value.records) = 2
  /\ call.extracted.records[1].rawJson = <<<<K_date, JsStr(Txt_3_5_26)>>>>
  /\ call.extracted.records[2].rawJson = <<<<K_date, JsStr(Txt_3_5_26)>>>>
  /\ ret.value.records[1].rowIndex = 5
  /\ ret.value.records[2].rowIndex = 6
  /\ ret.value.records[1].rowSha256 = ret.value.records[2].rowSha256

(***************************************************************************)
(* CSV documents under test, written from a grid of cells: a first line of *)
(* up to MaxCsvCols cells and up to MaxCsvRows further lines of 1 to       *)
(* MaxCsvCols + 1 cells, each line a run of the cells "1", " x " and the   *)
(* empty cell in turn; the line of one empty cell is an empty line.        *)
(***************************************************************************)
MaxCsvCols == 2
MaxCsvRows == 2

Txt_x_Padded == <<" ", "x", " ">>

HeaderCells == {<<>>, K_amount, K_memo}

DataCells == <<<<"1">>, Txt_x_Padded, <<>>>>

NonEmptySeqsUpTo(S, n) == SeqsUpTo(S, n) \ {<<>>}

\* The data lines: n cells taken in turn from DataCells, from the k-th on.
DataLines ==
  {[i \in 1..n |-> DataCells[((i + k) % Len(DataCells)) + 1]] :
     n \in 1..(MaxCsvCols + 1), k \in DOMAIN DataCells}

CsvGrids ==
  {<<h>> \o d : h \in NonEmptySeqsUpTo(HeaderCells, MaxCsvCols),
                d \in SeqsUpTo(DataLines, MaxCsvRows)}

\* The text of a grid: cells joined by commas, every line ended by "\n".
GridText(grid) ==
  Concat([i \in DOMAIN grid |-> Join(grid[i], <<",">>) \o <<"\n">>])

InitCsv ==
  /\ call \in {[fn |-> "extractUpload", fileBuffer |-> GridText(g), mimeType |-> Txt_text_csv,
                originalFilename |-> <<"a", ".", "c", "s", "v">>, grid |-> g] :
                 g \in CsvGrids \cup {<<>>, <<<<<<>>>>>>}}
  /\ ret = JsPending
  /\ EmptyStore

\* normalizeExtractedRecords and deriveNormalizedTransactionsFromRows on
\* the extracted records, as processInline and processUploadJob run them.
CallNormalizeAndDerive ==
  /\ call.fn = "extractUpload"
  /\ ret.t = "returned"
  /\ LET normalized == normalizeExtractedRecords(ret.value, Null)
     IN  ret' = [t |-> "derived", extracted |-> ret.value,
                 normalizedCandidates |->
                   deriveNormalizedTransactionsFromRows(
                     normalized.records,
                     [normalizationVersion |-> Txt_v1, defaultCurrency |-> Txt_INR], Null)]
  /\ UNCHANGED <<call, storeVars>>

NextCsv == CallExtractUpload \/ CallNormalizeAndDerive

SpecCsv == InitCsv /\ [][NextCsv]_vars

\* The lines of the grid that are not empty: the header and the data rows.
GridLines(grid) == SelectSeq(grid, LAMBDA line : line # <<<<>>>>)

\* A cell as read: without the spaces around it.
CellText(cell) == IF cell = Txt_x_Padded THEN <<"x">> ELSE cell

\* The name of the header cell at a 1-based position.
HeaderName(header, i) ==
  IF header[i] = <<>> THEN Txt_column_ \o NatToText(i) ELSE CellText(header[i])

CsvExtracted == call.fn = "extractUpload" /\ "grid" \in DOMAIN call /\ ret.t = "returned"

\* C18: CSV extraction does not abort on ragged rows: every data row gives
\* a record whose keys are the header names, an empty header cell at
\* position i being named column_i; a field past the end of a shorter row
\* is null, the fields of a longer row past the header are dropped (of
\* header cells with one name the last gives the value).
C18_RaggedRowsPaddedAndCut ==
  /\ (call.fn = "extractUpload" /\ "grid" \in DOMAIN call /\ ret # JsPending)
       => ret.t \in {"returned", "derived"}
  /\ (CsvExtracted /\ GridLines(call.grid) # <<>>) =>
       LET lines == GridLines(call.grid)
           header == lines[1]
       IN  /\ Len(ret.value.records) = Len(lines) - 1
           /\ \A k \in DOMAIN ret.value.records :
                LET values == lines[k + 1]
                    rawJson == ret.value.records[k].rawJson
                IN  /\ {rawJson[n][1] : n \in DOMAIN rawJson} =
                         {HeaderName(header, i) : i \in DOMAIN header}
                    /\ Len(rawJson) <= Len(header)
                    /\ \A i \in DOMAIN header :
                         (\A j \in DOMAIN header : j > i =>
                            HeaderName(header, j) # HeaderName(header, i))
                         => ObjectGet(rawJson, HeaderName(header, i)) =
                              IF i <= Len(values) THEN JsStr(CellText(values[i])) ELSE JsNull

\* C18 witness: under the header "amount," a row of one field and a row of
\* three were extracted: the first with column_2 null, the second without
\* its third field.
C18_Witness_ShortAndLongRow ==
  /\ CsvExtracted
  /\ call.grid = <<<<K_amount, <<>>>>, <<<<"1">>>>, <<<<"1">>, Txt_x_Padded, <<>>>>>>
  /\ ret.value.records[1].rawJson =
       <<<<K_amount, JsStr(<<"1">>)>>, <<Txt_column_ \o <<"2">>, JsNull>>>>
  /\ ret.value.records[2].rawJson =
       <<<<K_amount, JsStr(<<"1">>)>>, <<Txt_column_ \o <<"2">>, JsStr(<<"x">>)>>>>

\* C19: CSV extraction gives one record per data row, its rowIndex the
\* zero-based position among the data rows in document order; a CSV of a
\* header alone, or an empty one, gives no record and then no candidate,
\* without an error.
C19_RowIndexIsPositionAmongDataRows ==
  /\ CsvExtracted =>
       LET lines == GridLines(call.grid)
       IN  /\ Len(ret.value.records) = IF lines = <<>> THEN 0 ELSE Len(lines) - 1
           /\ \A k \in DOMAIN ret.value.records : ret.value.records[k].rowIndex = k - 1
  /\ (call.fn = "extractUpload" /\ "grid" \in DOMAIN call /\ ret.t = "derived") =>
       /\ Len(GridLines(call.grid)) <= 1 =>
            ret.extracted.records = <<>> /\ ret.normalizedCandidates = <<>>
       /\ Len(ret.normalizedCandidates) <= Len(ret.extracted.records)

\* C19 witness: a document of a header and two data rows gave the records
\* 0 and 1, and both gave a candidate.
C19_Witness_TwoDataRows ==
  /\ call.fn = "extractUpload" /\ "grid" \in DOMAIN call /\ ret.t = "derived"
  /\ call.grid = <<<<K_amount, K_memo>>, <<<<"1">>, Txt_x_Padded>>, <<<<"1">>, Txt_x_Padded, <<>>>>>>
  /\ Len(ret.extracted.records) = 2
  /\ ret.extracted.records[1].rowIndex = 0
  /\ ret.extracted.records[2].rowIndex = 1
  /\ Len(ret.normalizedCandidates) = 2

(***************************************************************************)
(* PDF uploads under test: every text of up to MaxPdfLen characters over   *)
(* a letter, the space, the line feed, the tab and NUL, and two texts      *)
(* longer than PDF_TEXT_LIMIT.                                             *)
(***************************************************************************)
MaxPdfLen == 4

PdfAlphabet == {"a", " ", "\n", "\t", "U+0000"}

\* "a" followed by "ab ab ab ...": the character at PDF_TEXT_LIMIT is a space.
LongPdfWords ==
  [i \in 1..(PDF_TEXT_LIMIT + 2) |->
     IF i = 1 THEN "a"
     ELSE CASE (i - 2) % 3 = 0 -> "a" [] (i - 2) % 3 = 1 -> "b" [] OTHER -> " "]

\* "a", NUL, line feed, repeated: longer than PDF_TEXT_LIMIT once collapsed.
LongPdfRuns ==
  [i \in 1..(PDF_TEXT_LIMIT + (PDF_TEXT_LIMIT \div 2) + 3) |->
     CASE i % 3 = 1 -> "a" [] i % 3 = 2 -> "U+0000" [] OTHER -> "\n"]

PdfBuffers == SeqsUpTo(PdfAlphabet, MaxPdfLen) \cup {LongPdfWords, LongPdfRuns}

Txt_a_pdf == <<"a", ".", "p", "d", "f">>

InitPdf ==
  /\ call \in {[fn |-> "extractUpload", fileBuffer |-> b, mimeType |-> Txt_application_pdf,
                originalFilename |-> Txt_a_pdf, pdf |-> TRUE] : b \in PdfBuffers}
  /\ ret = JsPending
  /\ EmptyStore

SpecPdf == InitPdf /\ [][NextKind]_vars

PdfExtracted == call.fn = "extractUpload" /\ "pdf" \in DOMAIN call /\ ret # JsPending

\* The characters the collapsed text may not hold, the space apart.
PdfBlankChars == {"\n", "\t", "\r", "U+00A0", "U+FEFF", "U+0000"}

\* C20: PDF extraction returns exactly one record, of rowIndex 0, with the
\* single field text; its text is not empty, has at most PDF_TEXT_LIMIT
\* characters, holds no NUL and no whitespace but single spaces, and is the
\* placeholder when the upload holds nothing but whitespace and NUL.
C20_PdfStubOneCollapsedText ==
  PdfExtracted =>
    /\ ret.t = "returned"
    /\ Len(ret.value.records) = 1
    /\ ret.value.records[1].rowIndex = 0
    /\ LET rawJson == ret.value.records[1].rawJson
       IN  /\ Len(rawJson) = 1
           /\ rawJson[1][1] = Txt_text
           /\ rawJson[1][2].t = "string"
           /\ LET text == rawJson[1][2].v
              IN  /\ text # <<>>
                  /\ Len(text) <= PDF_TEXT_LIMIT
                  /\ \A i \in DOMAIN text : text[i] \notin PdfBlankChars
                  /\ \A i \in DOMAIN text :
                       (i > 1 /\ text[i] = " ") => text[i - 1] # " "
                  /\ (\A i \in DOMAIN call.fileBuffer :
                        call.fileBuffer[i] \in PdfBlankChars \cup {" "})
                       => text = Txt_PdfNotExtracted

\* C20 witness: a text of more than PDF_TEXT_LIMIT characters, with NUL and
\* line feed between its words, came back as PDF_TEXT_LIMIT characters.
C20_Witness_LongTextCut ==
  /\ PdfExtracted
  /\ call.fileBuffer = LongPdfRuns
  /\ Len(ret.value.records[1].rawJson[1][2].v) = PDF_TEXT_LIMIT
  /\ Take(ret.value.records[1].rawJson[1][2].v, 3) = <<"a", " ", "a">>

(***************************************************************************)
(* The status of a sync run from step to step.                             *)
(***************************************************************************)
LifecycleSteps ==
  {<<"queued", "running">>, <<"running", "succeeded">>, <<"running", "failed">>}

\* C21 as stated: every run is created queued, and its status only moves
\* queued -> running -> succeeded or failed; it never becomes succeeded or
\* failed without having been running first.
C21_Original_LifecycleOrder ==
  [][/\ \A r \in DOMAIN syncRuns' \ DOMAIN syncRuns : syncRuns'[r].status = "queued"
     /\ \A r \in DOMAIN syncRuns :
          syncRuns'[r].status # syncRuns[r].status =>
            <<syncRuns[r].status, syncRuns'[r].status>> \in LifecycleSteps]_vars

\* C23 as stated: once a run is succeeded or failed its status never
\* changes again, the retries of a parse job included.
C23_Original_TerminalStatusStays ==
  [][\A r \in DOMAIN syncRuns :
       syncRuns[r].status \in {"succeeded", "failed"} =>
         syncRuns'[r].status = syncRuns[r].status]_vars

(***************************************************************************)
(* The admin pages.  A GET of the admin controller reads the tables and    *)
(* changes nothing: it is an operator on the stored rows, evaluated in     *)
(* every state the uploads reach.                                          *)
(***************************************************************************)
NotFound(message) == [t |-> "threw", status |-> 404, message |-> message]

BadRequest(message) == [t |-> "threw", status |-> 400, message |-> message]

\* The normalized transactions of a raw row: those of its source system
\* and rowSha256 with normalization version v1.
NormalizedOfRow(row) ==
  {n \in normalizedTransactions :
     /\ n.sourceSystem = row.sourceSystem
     /\ n.rowSha256 = row.rowSha256
     /\ n.normalizationVersion = Txt_v1}

\* GET /admin/rows/:rowSha256 with the query parameters given: a record
\* with the field upload_id, or the empty query.
EmptyQuery == <<>>

getRowDetail(rowSha256, query) ==
  LET given == "upload_id" \in DOMAIN query
      matches == {row \in rawRows : row.rowSha256 = rowSha256}
      found ==
        IF given
        THEN {row \in rawRows : row.rowSha256 = rowSha256 /\ row.uploadId = query.upload_id}
        ELSE matches
  IN  IF ~given /\ matches = {} THEN NotFound("Raw row not found.")
      ELSE IF ~given /\ Cardinality(matches) > 1
      THEN BadRequest("row_sha256 is ambiguous across source_system values; provide upload_id.")
      ELSE IF found = {}
      THEN NotFound("Raw row not found for provided row_sha256 + upload_id.")
      ELSE LET row == CHOOSE row \in found : TRUE
           IN  Returned([row |-> row,
                         status |->
                           [raw |-> IF given /\ query.upload_id # row.uploadId
                                    THEN "RAW_DUPLICATE" ELSE "RAW_INSERTED",
                            normalized |-> IF NormalizedOfRow(row) # {}
                                           THEN "NORMALIZED_EXISTS" ELSE "NORMALIZED_MISSING"]])

\* The persisted raw row of a rowSha256 under the source system of upload u.
PersistedRow(u, rowSha256) ==
  {row \in rawRows : row.sourceSystem = procs[u].sourceSystem /\ row.rowSha256 = rowSha256}

\* C22 as stated: for an upload U past its raw-row insert and a rowSha256 of
\* its document, the row detail with upload_id U shows the persisted row,
\* with raw status RAW_INSERTED when U owns it and RAW_DUPLICATE when
\* another upload inserted it first; it is not reported as not found.
C22_Original_DuplicateRowShown ==
  \A u \in Runs :
    PastRawInsert(u) =>
      \A h \in RowHashes(u) :
        \A row \in PersistedRow(u, h) :
          LET detail == getRowDetail(h, [upload_id |-> u])
          IN  /\ detail.t = "returned"
              /\ detail.value.status.raw =
                   IF row.uploadId = u THEN "RAW_INSERTED" ELSE "RAW_DUPLICATE"

(***************************************************************************)
(* Inline uploads: handleUpload has returned or thrown.                    *)
(***************************************************************************)
InlineEnded(r) == procs[r].parseMode = "inline" /\ procs[r].pc \in {"done", "threw"}

\* C24: when handleUpload of an inline upload has returned or thrown, the
\* run created for it is succeeded or failed, never queued or running,
\* whichever awaited step was rejected or threw; the response has status
\* succeeded only if the run is succeeded.
C24_InlineRunEndsTerminal ==
  \A r \in Runs :
    InlineEnded(r) =>
      /\ syncRuns[r].status \in {"succeeded", "failed"}
      /\ procs[r].response = "succeeded" => syncRuns[r].status = "succeeded"
      /\ procs[r].pc = "threw" => syncRuns[r].status = "failed"

\* C24 witness: an inline upload stored its raw rows, its normalized
\* insert was rejected, and the request ended with the 500 response and
\* the run failed.
C24_Witness_FailedAfterRawInsert ==
  \E r \in Runs :
    /\ InlineEnded(r)
    /\ procs[r].response = "500"
    /\ syncRuns[r].status = "failed"
    /\ \E row \in rawRows : row.uploadId = r
    /\ normalizedTransactions = {}

(***************************************************************************)
(* Normalized transactions of a document once a run of it has succeeded.   *)
(***************************************************************************)
\* The candidates the document of run r derives.
CandidatesOf(r) ==
  LET parsed == call.parsed[procs[r].file]
  IN  IF parsed.t = "threw" THEN {}
      ELSE {parsed.value.normalizedCandidates[i] : i \in DOMAIN parsed.value.normalizedCandidates}

NormalizedStored(sourceSystem, rowSha256) ==
  \E n \in normalizedTransactions :
    /\ n.sourceSystem = sourceSystem
    /\ n.rowSha256 = rowSha256
    /\ n.normalizationVersion = Txt_v1

\* C25: once a run is succeeded, every row of its document that derives a
\* candidate has a normalized transaction stored for (sourceSystem,
\* rowSha256, v1), also when the run inserted no raw row because an earlier
\* run, failed before its normalized insert, had stored them.
C25_SucceededRunHasNormalized ==
  \A r \in Runs :
    syncRuns[r].status = "succeeded" =>
      \A candidate \in CandidatesOf(r) :
        NormalizedStored(procs[r].sourceSystem, candidate.rowSha256)

\* C25 witness: a run stored the raw rows of the CSV and failed before its
\* normalized insert; the next run of the document found every raw row a
\* duplicate, inserted the normalized transaction and succeeded.
C25_Witness_HealedByNextRun ==
  \E a, b \in Runs :
    /\ a # b
    /\ SameDocument(a, b)
    /\ syncRuns[a].status = "failed"
    /\ \E row \in rawRows : row.uploadId = a
    /\ syncRuns[b].status = "succeeded"
    /\ syncRuns[b].stats.inserted_records = 0
    /\ syncRuns[b].stats.normalized_inserted_records = Cardinality(normalizedTransactions)
    /\ normalizedTransactions # {}

(***************************************************************************)
(* Pairs of rows for derivation: rows of two or three of the columns       *)
(* amount, Amount and description in every order, the amount written "5"   *)
(* or "5.0" and the description in two letter cases, so that rows of one   *)
(* rowSha256 and rows of one content in two key orders are among them.     *)
(***************************************************************************)
SameEntries ==
  {<<K_amount, JsStr(<<"5">>)>>, <<K_amount, JsStr(<<"5", ".", "0">>)>>,
   <<K_Amount, JsStr(<<"7">>)>>,
   <<K_description, JsStr(Txt_Salary_Credit)>>, <<K_description, JsStr(Txt_salary_credit)>>}

SameRows ==
  {row \in SeqsUpTo(SameEntries, MaxRowKeys) :
     /\ Len(row) >= 2
     /\ \A i, j \in DOMAIN row : i # j => row[i][1] # row[j][1]}

InitSame ==
  /\ call \in {[fn |-> "deriveNormalizedTransactionsFromRows",
                rows |-> RecordsOf(<<a, b>>),
                options |-> [normalizationVersion |-> Null, defaultCurrency |-> Txt_INR],
                host |-> Null] : a \in SameRows, b \in SameRows}
  /\ ret = JsPending
  /\ EmptyStore

SpecSame == InitSame /\ [][NextDerive]_vars

SameDone ==
  /\ call.fn = "deriveNormalizedTransactionsFromRows"
  /\ Len(call.rows) = 2
  /\ ret # JsPending

\* Both rows gave no candidate, or each gave one and the two are equal.
SameCandidates ==
  \/ ret.value = <<>>
  \/ Len(ret.value) = 2 /\ ret.value[1] = ret.value[2]

\* C26 as stated: two records of equal rowSha256 derive equal candidates
\* under the same options: both none, or candidates equal in every field.
C26_Original_EqualHashEqualCandidate ==
  (SameDone /\ call.rows[1].rowSha256 = call.rows[2].rowSha256) => SameCandidates

\* The key-to-value associations of a row.
Associations(rawJson) == {rawJson[i] : i \in DOMAIN rawJson}

\* C27 as stated: two rawJson objects of the same key-to-value
\* associations in different key order derive the same candidate, also
\* when several of their keys normalize to one lookup key.
C27_Original_KeyOrderIrrelevant ==
  (SameDone /\ Associations(call.rows[1].rawJson) = Associations(call.rows[2].rawJson))
    => SameCandidates

\* The raw_uploads row of upload u, as createRawUpload wrote it.
RawUploadOf(u) == [id |-> u, sourceSystem |-> procs[u].sourceSystem, file |-> procs[u].file]

\* GET /admin/uploads/:uploadId, given the raw_uploads rows of that id (one
\* or none): the document is extracted again and every record is looked up
\* in raw_rows by source system and rowSha256.
getUploadDetail(found) ==
  IF found = {} THEN NotFound("Upload not found.")
  ELSE LET upload == CHOOSE row \in found : TRUE
           parsed == call.parsed[upload.file]
       IN  IF parsed.t = "threw" THEN parsed
           ELSE LET records == parsed.value.records
                    existing(i) ==
                      {row \in rawRows : /\ row.sourceSystem = upload.sourceSystem
                                         /\ row.rowSha256 = records[i].rowSha256}
                    rawStatus(i) ==
                      IF existing(i) = {} THEN "RAW_PENDING"
                      ELSE IF (CHOOSE row \in existing(i) : TRUE).uploadId = upload.id
                      THEN "RAW_INSERTED" ELSE "RAW_DUPLICATE"
                    count(status) == Cardinality({i \in DOMAIN records : rawStatus(i) = status})
                IN  Returned([summary |->
                                [attempted_rows |-> Len(records),
                                 inserted_rows |-> count("RAW_INSERTED"),
                                 duplicate_rows |-> count("RAW_DUPLICATE"),
                                 pending_rows |-> count("RAW_PENDING")],
                              raw_rows |-> [i \in DOMAIN records |->
                                              [row_index |-> records[i].rowIndex,
                                               row_sha256 |-> records[i].rowSha256,
                                               raw_status |-> rawStatus(i)]]])

\* C28 as stated: for an upload whose run succeeded, the summary of the
\* upload detail agrees with the stats of the run: inserted_rows equals
\* inserted_records and duplicate_rows equals duplicate_records, also for
\* a document with several rows of one rowSha256; and inserted_rows +
\* duplicate_rows + pending_rows equals attempted_rows.
C28_Original_SummaryAgreesWithStats ==
  \A u \in Runs :
    syncRuns[u].status = "succeeded" =>
      LET detail == getUploadDetail({RawUploadOf(u)})
      IN  /\ detail.t = "returned"
          /\ detail.value.summary.inserted_rows = syncRuns[u].stats.inserted_records
          /\ detail.value.summary.duplicate_rows = syncRuns[u].stats.duplicate_records
          /\ detail.value.summary.inserted_rows + detail.value.summary.duplicate_rows
               + detail.value.summary.pending_rows = detail.value.summary.attempted_rows

(***************************************************************************)
(* resolveOrCreateSourceId under concurrent requests: up to MaxRequests    *)
(* calls, each with or without a source id, every awaited query one step.  *)
(* The table starts with an active bank source and an inactive manual      *)
(* upload source.                                                          *)
(***************************************************************************)
MaxRequests == 3

MANUAL_SOURCE_KIND == "manual_upload"

InitSource ==
  /\ call = [fn |-> "resolveOrCreateSourceId"]
  /\ ret = JsPending
  /\ syncRuns = <<>>
  /\ rawRows = {}
  /\ normalizedTransactions = {}
  /\ jobs = <<>>
  /\ procs = <<>>
  /\ clock = 0
  /\ failures = 0
  /\ sources = <<[kind |-> "bank", isActive |-> TRUE],
                 [kind |-> MANUAL_SOURCE_KIND, isActive |-> FALSE]>>

\* The ids of the active manual upload sources; ids are given in the order
\* of creation, so the least is the one created first.
ActiveManualSources ==
  {id \in DOMAIN sources : sources[id].kind = MANUAL_SOURCE_KIND /\ sources[id].isActive}

\* resolveOrCreateSourceId(sourceId) is called: with a source id it stands
\* before the lookup of that id, without one before the lookup of the
\* manual upload source.
ResolveOrCreateSourceId(query) ==
  /\ call.fn = "resolveOrCreateSourceId"
  /\ Len(procs) < MaxRequests
  /\ procs' = Append(procs, [pc |-> IF "source_id" \in DOMAIN query
                                    THEN "findGiven" ELSE "findExisting",
                             query |-> query, resolved |-> 0])
  /\ UNCHANGED <<call, ret, sources, syncRuns, rawRows, normalizedTransactions, jobs, clock,
                 failures>>

\* await prisma.source.findFirst({ where: { id: sourceId, isActive: true } })
FindGivenSource(r) ==
  /\ call.fn = "resolveOrCreateSourceId"
  /\ procs[r].pc = "findGiven"
  /\ LET id == procs[r].query.source_id
     IN  procs' = [procs EXCEPT
           ![r].pc = IF id \in DOMAIN sources /\ sources[id].isActive
                     THEN "returned" ELSE "threw",
           ![r].resolved = IF id \in DOMAIN sources /\ sources[id].isActive THEN id ELSE 0]
  /\ UNCHANGED <<call, ret, sources, syncRuns, rawRows, normalizedTransactions, jobs, clock,
                 failures>>

\* await prisma.source.findFirst({ where: { kind, isActive: true },
\* orderBy: { createdAt: "asc" } }), and the return of the one found
FindExistingSource(r) ==
  /\ call.fn = "resolveOrCreateSourceId"
  /\ procs[r].pc = "findExisting"
  /\ procs' = [procs EXCEPT
       ![r].pc = IF ActiveManualSources # {} THEN "returned" ELSE "create",
       ![r].resolved =
         IF ActiveManualSources # {}
         THEN CHOOSE id \in ActiveManualSources : \A other \in ActiveManualSources : id <= other
         ELSE 0]
  /\ UNCHANGED <<call, ret, sources, syncRuns, rawRows, normalizedTransactions, jobs, clock,
                 failures>>

\* await prisma.source.create({ data: { name, kind, config } })
CreateSource(r) ==
  /\ call.fn = "resolveOrCreateSourceId"
  /\ procs[r].pc = "create"
  /\ sources' = Append(sources, [kind |-> MANUAL_SOURCE_KIND, isActive |-> TRUE])
  /\ procs' = [procs EXCEPT ![r].pc = "returned", ![r].resolved = Len(sources) + 1]
  /\ UNCHANGED <<call, ret, syncRuns, rawRows, normalizedTransactions, jobs, clock, failures>>

NextSource ==
  \/ \E query \in {EmptyQuery} \cup {[source_id |-> id] : id \in 1..MaxRequests} :
       ResolveOrCreateSourceId(query)
  \/ \E r \in DOMAIN procs : FindGivenSource(r)
  \/ \E r \in DOMAIN procs : FindExistingSource(r)
  \/ \E r \in DOMAIN procs : CreateSource(r)

SpecSource == InitSource /\ [][NextSource]_vars

\* C29 as stated: under any interleaving of uploads that omit source_id
\* there is at most one active manual upload source, and every such upload
\* that has resolved its source resolved to that one.
C29_Original_OneManualSource ==
  call.fn = "resolveOrCreateSourceId" =>
    /\ Cardinality(ActiveManualSources) <= 1
    /\ \A r \in DOMAIN procs :
         (procs[r].pc = "returned" /\ "source_id" \notin DOMAIN procs[r].query)
           => procs[r].resolved \in ActiveManualSources
    /\ \A r, q \in DOMAIN procs :
         (/\ procs[r].pc = "returned" /\ "source_id" \notin DOMAIN procs[r].query
          /\ procs[q].pc = "returned" /\ "source_id" \notin DOMAIN procs[q].query)
         => procs[r].resolved = procs[q].resolved

\* C30 as stated: every record extracted from a CSV data row has exactly
\* one field per header column, the field of column i holding the i-th
\* value of the row, or null when the row has none: no value within the
\* width of the header is lost, also when two header cells have one name.
C30_Original_OneFieldPerColumn ==
  (CsvExtracted /\ GridLines(call.grid) # <<>>) =>
    LET lines == GridLines(call.grid)
        header == lines[1]
    IN  \A k \in DOMAIN ret.value.records :
          LET values == lines[k + 1]
              rawJson == ret.value.records[k].rawJson
          IN  /\ Len(rawJson) = Len(header)
              /\ \A i \in DOMAIN header :
                   /\ i <= Len(rawJson)
                   /\ rawJson[i][1] = HeaderName(header, i)
                   /\ rawJson[i][2] =
                        IF i <= Len(values) THEN JsStr(CellText(values[i])) ELSE JsNull

====
